---- MODULE Spec2Model ----
(***************************************************************************)
(* A model of the dashboard / report services of the SaaS dashboard:       *)
(*   src/src/lib/services/dashboard.ts  getKPIData, getChartData,          *)
(*                                      getTransactions, getDemoOrganization*)
(*   src/src/lib/services/reports.ts    getReportData, generateCSV         *)
(* and of the request handlers that call them (dashboard page, reports     *)
(* page, CSV export endpoint), and of                                      *)
(*   POST /api/auth/signup       the rate limiter, the creation of a user  *)
(*   PATCH /api/settings/password                                          *)
(*   src/src/lib/db.ts           the Prisma client of the process          *)
(*   settings-client.tsx         the status of the two settings forms.     *)
(*                                                                         *)
(* The Data Store (the Prisma tables) is the state; a service call is an   *)
(* action that reads the store and leaves its return value in `result`.    *)
(*                                                                         *)
(* Modelling conventions                                                   *)
(*   - an instant (JS Date) is an integer number of ticks; a calendar day  *)
(*     is TicksPerDay ticks; the server's local time zone is UTC;          *)
(*   - a Decimal / Number amount is an integer number of cents;            *)
(*   - a text (customer name, e-mail, search box) is a sequence of         *)
(*     one-character strings; enum-like strings are TLA+ strings;          *)
(*   - the CSV text is a sequence of characters; the day numbers count     *)
(*     from 1970-01-01;                                                    *)
(*   - a query of the store may fail: a run of a function lists the        *)
(*     queries it issued and how it ended;                                 *)
(*   - a route handler runs in steps, one for each stretch between two     *)
(*     awaited accesses to the User table; steps of different requests     *)
(*     interleave; `requests` keeps every request with its answer;         *)
(*   - Date.now() is in milliseconds; a bcrypt hash is the password with a *)
(*     marker in front, so that compare is equality of the passwords;      *)
(*   - the order in which the database returns rows that tie on the        *)
(*     ORDER BY key is unspecified: every order is a possible outcome.     *)
(***************************************************************************)
EXTENDS Integers, Sequences, FiniteSets, TLC

VARIABLES
    organizations,  \* Organization table: set of [id, slug]
    customers,      \* Customer table: set of [id, organizationId, name, email]
    transactions,   \* Transaction table: set of transaction rows
    dailyMetrics,   \* DailyMetric table: set of metric rows
    now,            \* the clock: what `new Date()` returns
    call,           \* the last service call / request: [op, ...arguments]
    result,         \* what that call returned
    pages,          \* the pages a client has loaded so far while paging forward
    users,          \* User table: set of [id, email, passwordHash]
    rateLimitMap,   \* the signup route's limiter: ip -> [count, lastReset]
    requests,       \* the requests received, in order of arrival: [pc, status, ...]
    dateNow,        \* the clock of the limiter: what `Date.now()` returns
    dbModule,       \* the db module: globalThis.prisma, the clients made, the exports
    form            \* the settings forms: status, requests in flight, timers pending

\* the state of the auth and settings routes, of the db module and of the settings form
web == <<users, rateLimitMap, requests, dateNow, dbModule, form>>

vars ==
    <<organizations, customers, transactions, dailyMetrics, now, call, result, pages,
      users, rateLimitMap, requests, dateNow, dbModule, form>>

store == <<organizations, customers, transactions, dailyMetrics>>

\* the Data Store as the services reach it through the Prisma client
DB ==
    [organizations |-> organizations, customers |-> customers,
     transactions |-> transactions, dailyMetrics |-> dailyMetrics]

\* the two forms of the settings page before the first submit: the status shown, the
\* requests awaiting their response, the 3-second timers pending, the submits so far
FormIdle ==
    [f \in {"profile", "password"} |->
        [status |-> "idle", inFlight |-> 0, timers |-> 0, started |-> 0]]

\* no account, no request, the limiter empty, the db module not evaluated, the form idle
WebIdle ==
    /\ users = {}
    /\ rateLimitMap = <<>>
    /\ requests = <<>>
    /\ dateNow = 0
    /\ dbModule = [nodeEnv |-> "development", globalForPrisma |-> 0, constructed |-> 0,
                   exported |-> <<>>]
    /\ form = FormIdle

-----------------------------------------------------------------------------
(* Bounds of the model *)

MaxTx == 3          \* at most this many Transaction rows in a snapshot
MaxPageSize == 2    \* page sizes 1..MaxPageSize

-----------------------------------------------------------------------------
(* Values *)

NULL == "null"                  \* JS null / undefined of an enum-like string
NullText == <<"null">>          \* JS null / undefined of a text
EmptyText == <<>>               \* the empty string ""

\* JS truthiness of an optional string: undefined, null and "" are falsy
IsTruthy(s) == s # NULL /\ s # ""
IsTruthyText(s) == s # NullText /\ s # EmptyText

Orgs == {"org1", "org2"}
Statuses == {"COMPLETED", "PENDING", "FAILED", "REFUNDED"}
Types == {"PAYMENT", "SUBSCRIPTION", "ONE_TIME", "REFUND"}

TicksPerDay == 4

RECURSIVE SeqSum(_)
SeqSum(s) == IF s = <<>> THEN 0 ELSE Head(s) + SeqSum(Tail(s))

RECURSIVE SetSum(_, _)
\* the sum of f[x] over the set S
SetSum(f, S) ==
    IF S = {} THEN 0
    ELSE LET x == CHOOSE y \in S : TRUE IN f[x] + SetSum(f, S \ {x})

-----------------------------------------------------------------------------
(* Texts: case-insensitive substring match (Prisma `contains`, mode          *)
(* "insensitive")                                                            *)

toLowerChar(c) ==
    CASE c = "A" -> "a"
      [] c = "B" -> "b"
      [] c = "C" -> "c"
      [] OTHER -> c

toLower(t) == [i \in 1..Len(t) |-> toLowerChar(t[i])]

\* needle occurs in hay as a contiguous substring
contains(hay, needle) ==
    \E i \in 0..(Len(hay) - Len(needle)) :
        \A j \in 1..Len(needle) : hay[i + j] = needle[j]

containsInsensitive(hay, needle) ==
    /\ hay # NullText
    /\ contains(toLower(hay), toLower(needle))

-----------------------------------------------------------------------------
(* Dates (date-fns) *)

InvalidDate == 0 - 1            \* `Invalid Date` (its time value is NaN)

startOfDay(d) == IF d = InvalidDate THEN InvalidDate ELSE (d \div TicksPerDay) * TicksPerDay
endOfDay(d) == IF d = InvalidDate THEN InvalidDate ELSE startOfDay(d) + (TicksPerDay - 1)
subDays(d, n) == IF d = InvalidDate THEN InvalidDate ELSE d - n * TicksPerDay

\* Date.prototype.toISOString: the calendar day and the time of day of the instant
toISOString(d) == <<d \div TicksPerDay, d % TicksPerDay>>

-----------------------------------------------------------------------------
(* The query interface of the Data Store (Prisma) *)

\* a failed query: the promise rejects and the service call throws
Thrown(kind) == [error |-> kind]
IsThrown(r) == "error" \in DOMAIN r

customerOf(db, t) == CHOOSE c \in db.customers : c.id = t.customerId

\* every order in which `orderBy: { createdAt: "desc" }` may return the rows:
\* rows with equal createdAt come in an unspecified order
RECURSIVE orderByCreatedAtDesc(_)
orderByCreatedAtDesc(rows) ==
    IF rows = {} THEN {<<>>}
    ELSE UNION { { <<x>> \o rest : rest \in orderByCreatedAtDesc(rows \ {x}) } :
                 x \in {y \in rows : \A z \in rows : y.createdAt >= z.createdAt} }

\* skip / take of findMany
skipTake(s, skip, take) ==
    SubSeq(s, skip + 1, IF skip + take < Len(s) THEN skip + take ELSE Len(s))

-----------------------------------------------------------------------------
(* dashboard.ts: getTransactions *)

\* mutant: the search looks at the customer's name only
getTransactionsWhere_NameOnly(db, filters, t) ==
    /\ t.organizationId = filters.organizationId
    /\ (IsTruthy(filters.status) /\ filters.status # "all") => t.status = filters.status
    /\ IsTruthyText(filters.search) =>
          containsInsensitive(customerOf(db, t).name, filters.search)

\* mutant: "all" is handed to the store as a status like any other
getTransactionsWhere_AllIsAStatus(db, filters, t) ==
    /\ t.organizationId = filters.organizationId
    /\ IsTruthy(filters.status) => t.status = filters.status
    /\ IsTruthyText(filters.search) =>
          \/ containsInsensitive(customerOf(db, t).name, filters.search)
          \/ containsInsensitive(customerOf(db, t).email, filters.search)

\* mutant: the where clause is not scoped by organizationId
getTransactionsWhere_Unscoped(db, filters, t) ==
    /\ (IsTruthy(filters.status) /\ filters.status # "all") => t.status = filters.status
    /\ IsTruthyText(filters.search) =>
          \/ containsInsensitive(customerOf(db, t).name, filters.search)
          \/ containsInsensitive(customerOf(db, t).email, filters.search)

\* the `where` clause built from the filters
getTransactionsWhere(db, filters, t) ==
    /\ t.organizationId = filters.organizationId
    /\ (IsTruthy(filters.status) /\ filters.status # "all") => t.status = filters.status
    /\ IsTruthyText(filters.search) =>
          \/ containsInsensitive(customerOf(db, t).name, filters.search)
          \/ containsInsensitive(customerOf(db, t).email, filters.search)

\* mutant: totalCount is the number of rows of the requested page
getTransactionsCount_OfPage(db, filters) ==
    LET n == Cardinality({t \in db.transactions : getTransactionsWhere(db, filters, t)})
        skip == (filters.page - 1) * filters.pageSize
        rest == IF n > skip THEN n - skip ELSE 0
    IN IF rest < filters.pageSize THEN rest ELSE filters.pageSize

\* prisma.transaction.count({ where })
getTransactionsCount(db, filters) ==
    Cardinality({t \in db.transactions : getTransactionsWhere(db, filters, t)})

\* the projection of one row in the returned list
getTransactionsMap(db, t) ==
    [id |-> t.id,
     amount |-> t.amount,
     currency |-> t.currency,
     status |-> t.status,
     type |-> t.type,
     description |-> t.description,
     createdAt |-> toISOString(t.createdAt),
     customer |-> [name |-> customerOf(db, t).name, email |-> customerOf(db, t).email]]

\* the set of values getTransactions may return for these filters
getTransactions(db, filters) ==
    IF \/ IsTruthy(filters.status) /\ filters.status # "all" /\ filters.status \notin Statuses
       \/ (filters.page - 1) * filters.pageSize < 0
    THEN {Thrown("PrismaClientValidationError")}
    ELSE LET matching == {t \in db.transactions : getTransactionsWhere(db, filters, t)}
             totalCount == getTransactionsCount(db, filters)
         IN { [transactions |->
                   LET page == skipTake(ordered, (filters.page - 1) * filters.pageSize,
                                        filters.pageSize)
                   IN [i \in 1..Len(page) |-> getTransactionsMap(db, page[i])],
               totalCount |-> totalCount,
               page |-> filters.page,
               pageSize |-> filters.pageSize] :
              ordered \in orderByCreatedAtDesc(matching) }

-----------------------------------------------------------------------------
(* JS numbers: a number is a fraction n/d in lowest terms with d >= 0; d = 0 is a        *)
(* non-finite value (n # 0: Infinity or -Infinity, n = 0: NaN)                          *)

Abs(x) == IF x < 0 THEN 0 - x ELSE x
Sign(x) == IF x < 0 THEN 0 - 1 ELSE IF x > 0 THEN 1 ELSE 0

RECURSIVE GCD(_, _)
GCD(a, b) == IF b = 0 THEN a ELSE GCD(b, a % b)

Num(n, d) ==
    IF d = 0 THEN [n |-> Sign(n), d |-> 0]
    ELSE LET g == GCD(Abs(n), Abs(d))
         IN [n |-> Sign(d) * (n \div g), d |-> Abs(d) \div g]

Int2Num(i) == [n |-> i, d |-> 1]
Zero == Int2Num(0)

NumSub(a, b) == Num(a.n * b.d - b.n * a.d, a.d * b.d)
NumMul(a, b) == Num(a.n * b.n, a.d * b.d)
NumDiv(a, b) == Num(a.n * b.d, a.d * b.n)
NumGt0(a) == a.d # 0 /\ a.n > 0

\* Math.round: the nearest integer, halves rounded up
MathRound(a) == (2 * a.n + a.d) \div (2 * a.d)

\* mutant: no default is substituted
OrDefault_Identity(isNull, x, dflt) == x

\* `x || dflt` for a number that is null when isNull: null, 0 and NaN are falsy
OrDefault(isNull, x, dflt) == IF isNull \/ x.n = 0 THEN dflt ELSE x

-----------------------------------------------------------------------------
(* dashboard.ts: getKPIData, getChartData, getDemoOrganization *)

\* prisma.dailyMetric.aggregate over the rows: _sum and _avg are null without rows
aggregate(rows) ==
    [isNull |-> rows = {},
     revenue |-> SetSum([m \in rows |-> m.revenue], rows),
     activeUsers |-> SetSum([m \in rows |-> m.activeUsers], rows),
     churnedCustomers |-> SetSum([m \in rows |-> m.churnedCustomers], rows),
     totalCustomers |-> SetSum([m \in rows |-> m.totalCustomers], rows),
     conversionRate |->
         IF rows = {} THEN Zero
         ELSE Num(SetSum([m \in rows |-> m.conversionRate], rows), Cardinality(rows))]

\* where of the current period: date in [today - 30 days, today]
currentRows(db, organizationId, today) ==
    {m \in db.dailyMetrics :
        /\ m.organizationId = organizationId
        /\ m.date >= subDays(today, 30)
        /\ m.date <= today}

\* mutant: the previous period is closed at today - 30 days
previousRows_Closed(db, organizationId, today) ==
    {m \in db.dailyMetrics :
        /\ m.organizationId = organizationId
        /\ m.date >= subDays(today, 60)
        /\ m.date <= subDays(today, 30)}

\* where of the previous period: date in [today - 60 days, today - 30 days)
previousRows(db, organizationId, today) ==
    {m \in db.dailyMetrics :
        /\ m.organizationId = organizationId
        /\ m.date >= subDays(today, 60)
        /\ m.date < subDays(today, 30)}

currentMetrics(db, organizationId, today) ==
    aggregate(currentRows(db, organizationId, today))

previousMetrics(db, organizationId, today) ==
    aggregate(previousRows(db, organizationId, today))

\* mutant: the guard is left out
percentChange_Unguarded(current, previous) ==
    NumMul(NumDiv(NumSub(current, previous), previous), Int2Num(100))

\* previous > 0 ? ((current - previous) / previous) * 100 : 0
percentChange(current, previous) ==
    IF NumGt0(previous)
    THEN NumMul(NumDiv(NumSub(current, previous), previous), Int2Num(100))
    ELSE Zero

\* mutant: the total is not divided by 30
churnRate_OfTotal(churned, totalCustomers) ==
    NumMul(NumDiv(churned, totalCustomers), Int2Num(100))

\* (churned / (totalCustomers / 30)) * 100
churnRate(churned, totalCustomers) ==
    NumMul(NumDiv(churned, NumDiv(totalCustomers, Int2Num(30))), Int2Num(100))

\* mutant: the average is rounded before it is used
dailyAverage_Rounded(agg) ==
    Int2Num(MathRound(NumDiv(OrDefault(agg.isNull, Int2Num(agg.activeUsers), Zero),
                             Int2Num(30))))

\* (_sum.activeUsers || 0) / 30
dailyAverage(agg) ==
    NumDiv(OrDefault(agg.isNull, Int2Num(agg.activeUsers), Zero), Int2Num(30))

getKPIData(db, organizationId) ==
    LET today == now
        cur == currentMetrics(db, organizationId, today)
        prev == previousMetrics(db, organizationId, today)
        currentRevenue == OrDefault(cur.isNull, Int2Num(cur.revenue), Zero)
        previousRevenue == OrDefault(prev.isNull, Int2Num(prev.revenue), Zero)
        currentActiveUsers == dailyAverage(cur)
        previousActiveUsers == dailyAverage(prev)
        currentConversion == OrDefault(cur.isNull, cur.conversionRate, Zero)
        previousConversion == OrDefault(prev.isNull, prev.conversionRate, Zero)
        currentTotalCustomers == OrDefault(cur.isNull, Int2Num(cur.totalCustomers), Int2Num(1))
        currentChurned == OrDefault(cur.isNull, Int2Num(cur.churnedCustomers), Zero)
        currentChurnRate == churnRate(currentChurned, currentTotalCustomers)
        previousTotalCustomers ==
            OrDefault(prev.isNull, Int2Num(prev.totalCustomers), Int2Num(1))
        previousChurned == OrDefault(prev.isNull, Int2Num(prev.churnedCustomers), Zero)
        previousChurnRate == churnRate(previousChurned, previousTotalCustomers)
    IN [revenue |-> currentRevenue,
        revenueChange |-> percentChange(currentRevenue, previousRevenue),
        activeUsers |-> MathRound(currentActiveUsers),
        activeUsersChange |-> percentChange(currentActiveUsers, previousActiveUsers),
        conversionRate |-> currentConversion,
        conversionChange |-> percentChange(currentConversion, previousConversion),
        churnRate |-> currentChurnRate,
        churnChange |-> percentChange(currentChurnRate, previousChurnRate)]

\* mutant: the rows come latest first
RECURSIVE orderByDateAsc_Desc(_)
orderByDateAsc_Desc(rows) ==
    IF rows = {} THEN <<>>
    ELSE LET first == CHOOSE m \in rows : \A o \in rows : m.date >= o.date
         IN <<first>> \o orderByDateAsc_Desc(rows \ {first})

\* the rows of the chart in `orderBy: { date: "asc" }`; (organizationId, date) is unique
RECURSIVE orderByDateAsc(_)
orderByDateAsc(rows) ==
    IF rows = {} THEN <<>>
    ELSE LET first == CHOOSE m \in rows : \A o \in rows : m.date <= o.date
         IN <<first>> \o orderByDateAsc(rows \ {first})

getChartData(db, organizationId, days) ==
    LET startDate == subDays(now, days)
        metrics == orderByDateAsc({m \in db.dailyMetrics :
                                      /\ m.organizationId = organizationId
                                      /\ m.date >= startOfDay(startDate)
                                      /\ m.date <= endOfDay(now)})
    IN [i \in 1..Len(metrics) |->
           [date |-> toISOString(metrics[i].date)[1],
            revenue |-> metrics[i].revenue,
            activeUsers |-> metrics[i].activeUsers]]

\* the id of the organization with slug "acme-corp", or null
getDemoOrganization(db) ==
    IF \E o \in db.organizations : o.slug = "acme-corp"
    THEN (CHOOSE o \in db.organizations : o.slug = "acme-corp").id
    ELSE NULL

-----------------------------------------------------------------------------
(* reports.ts: getReportData *)

\* date-fns parseISO: a date-only string is the local midnight of that day, a string
\* with a time is that instant, anything else is Invalid Date
parseISO(s) ==
    CASE s = "1970-01-01" -> 0
      [] s = "1970-01-02" -> TicksPerDay
      [] s = "1970-01-02T12:00" -> TicksPerDay + (TicksPerDay \div 2)
      [] s = "1970-01-03" -> 2 * TicksPerDay
      [] OTHER -> InvalidDate

UnknownText == <<"U", "n", "k", "n", "o", "w", "n">>

\* mutant: the upper bound is the parsed end date itself, not the end of its day
getReportDataWhere_EndNotEndOfDay(filters, t) ==
    /\ t.organizationId = filters.organizationId
    /\ IsTruthy(filters.startDate) => t.createdAt >= startOfDay(parseISO(filters.startDate))
    /\ IsTruthy(filters.endDate) => t.createdAt <= parseISO(filters.endDate)
    /\ (IsTruthy(filters.status) /\ filters.status # "all") => t.status = filters.status
    /\ (IsTruthy(filters.type) /\ filters.type # "all") => t.type = filters.type

\* mutant: "all" is special only for the status, not for the type
getReportDataWhere_TypeAllIsAType(filters, t) ==
    /\ t.organizationId = filters.organizationId
    /\ IsTruthy(filters.startDate) => t.createdAt >= startOfDay(parseISO(filters.startDate))
    /\ IsTruthy(filters.endDate) => t.createdAt <= endOfDay(parseISO(filters.endDate))
    /\ (IsTruthy(filters.status) /\ filters.status # "all") => t.status = filters.status
    /\ IsTruthy(filters.type) => t.type = filters.type

\* the `where` clause: organization, createdAt range, status, type
getReportDataWhere(filters, t) ==
    /\ t.organizationId = filters.organizationId
    /\ IsTruthy(filters.startDate) => t.createdAt >= startOfDay(parseISO(filters.startDate))
    /\ IsTruthy(filters.endDate) => t.createdAt <= endOfDay(parseISO(filters.endDate))
    /\ (IsTruthy(filters.status) /\ filters.status # "all") => t.status = filters.status
    /\ (IsTruthy(filters.type) /\ filters.type # "all") => t.type = filters.type

\* the store rejects the query: an Invalid Date bound or a value outside an enum
getReportDataRejected(filters) ==
    \/ IsTruthy(filters.startDate) /\ startOfDay(parseISO(filters.startDate)) = InvalidDate
    \/ IsTruthy(filters.endDate) /\ endOfDay(parseISO(filters.endDate)) = InvalidDate
    \/ IsTruthy(filters.status) /\ filters.status # "all" /\ filters.status \notin Statuses
    \/ IsTruthy(filters.type) /\ filters.type # "all" /\ filters.type \notin Types

countStatus(txs, status) == Len(SelectSeq(txs, LAMBDA t : t.status = status))

\* mutant: the refunded rows are looked up under the type's name
getReportDataSummary_RefundTypo(txs) ==
    [totalTransactions |-> Len(txs),
     totalRevenue |->
         SeqSum([i \in 1..Len(SelectSeq(txs, LAMBDA t : t.status = "COMPLETED")) |->
                    SelectSeq(txs, LAMBDA t : t.status = "COMPLETED")[i].amount]),
     completedCount |-> countStatus(txs, "COMPLETED"),
     pendingCount |-> countStatus(txs, "PENDING"),
     failedCount |-> countStatus(txs, "FAILED"),
     refundedCount |-> countStatus(txs, "REFUND")]

\* mutant: the revenue is summed over all rows
getReportDataSummary_RevenueOfAll(txs) ==
    [totalTransactions |-> Len(txs),
     totalRevenue |-> SeqSum([i \in 1..Len(txs) |-> txs[i].amount]),
     completedCount |-> countStatus(txs, "COMPLETED"),
     pendingCount |-> countStatus(txs, "PENDING"),
     failedCount |-> countStatus(txs, "FAILED"),
     refundedCount |-> countStatus(txs, "REFUNDED")]

\* the summary computed from the fetched rows
getReportDataSummary(txs) ==
    [totalTransactions |-> Len(txs),
     totalRevenue |->
         LET completed == SelectSeq(txs, LAMBDA t : t.status = "COMPLETED")
         IN SeqSum([i \in 1..Len(completed) |-> completed[i].amount]),
     completedCount |-> countStatus(txs, "COMPLETED"),
     pendingCount |-> countStatus(txs, "PENDING"),
     failedCount |-> countStatus(txs, "FAILED"),
     refundedCount |-> countStatus(txs, "REFUNDED")]

\* the projection of one row in the returned list
getReportDataMap(db, t) ==
    [id |-> t.id,
     amount |-> t.amount,
     currency |-> t.currency,
     status |-> t.status,
     type |-> t.type,
     description |-> t.description,
     createdAt |-> toISOString(t.createdAt),
     customerName |-> IF IsTruthyText(customerOf(db, t).name) THEN customerOf(db, t).name
                      ELSE UnknownText,
     customerEmail |-> customerOf(db, t).email]

\* the set of values getReportData may return for these filters
getReportData(db, filters) ==
    IF getReportDataRejected(filters)
    THEN {Thrown("PrismaClientValidationError")}
    ELSE { [transactions |-> [i \in 1..Len(ordered) |-> getReportDataMap(db, ordered[i])],
            summary |-> getReportDataSummary(ordered)] :
           ordered \in orderByCreatedAtDesc(
                           {t \in db.transactions : getReportDataWhere(filters, t)}) }

\* new Date(isoString): the instant an ISO timestamp names
parseDate(iso) == iso[1] * TicksPerDay + iso[2]

\* the characters of a string value of the model
Text(s) ==
    CASE s = "USD" -> <<"U", "S", "D">>
      [] s = "COMPLETED" -> <<"C", "O", "M", "P", "L", "E", "T", "E", "D">>
      [] s = "PENDING" -> <<"P", "E", "N", "D", "I", "N", "G">>
      [] s = "FAILED" -> <<"F", "A", "I", "L", "E", "D">>
      [] s = "REFUNDED" -> <<"R", "E", "F", "U", "N", "D", "E", "D">>
      [] s = "PAYMENT" -> <<"P", "A", "Y", "M", "E", "N", "T">>
      [] s = "SUBSCRIPTION" -> <<"S", "U", "B", "S", "C", "R", "I", "P", "T", "I", "O", "N">>
      [] s = "ONE_TIME" -> <<"O", "N", "E", "_", "T", "I", "M", "E">>
      [] s = "REFUND" -> <<"R", "E", "F", "U", "N", "D">>
      [] s = "Payment" -> <<"P", "a", "y", "m", "e", "n", "t">>
      [] s = "Paid, thanks" -> <<"P", "a", "i", "d", ",", " ", "t", "h", "a", "n", "k", "s">>
      [] s = "ID" -> <<"I", "D">>
      [] s = "Customer Name" -> <<"C", "u", "s", "t", "o", "m", "e", "r", " ", "N", "a", "m", "e">>
      [] s = "Customer Email" -> <<"C", "u", "s", "t", "o", "m", "e", "r", " ", "E", "m", "a", "i", "l">>
      [] s = "Amount" -> <<"A", "m", "o", "u", "n", "t">>
      [] s = "Currency" -> <<"C", "u", "r", "r", "e", "n", "c", "y">>
      [] s = "Status" -> <<"S", "t", "a", "t", "u", "s">>
      [] s = "Type" -> <<"T", "y", "p", "e">>
      [] s = "Description" -> <<"D", "e", "s", "c", "r", "i", "p", "t", "i", "o", "n">>
      [] s = "Date" -> <<"D", "a", "t", "e">>
      [] s = "" -> <<>>

DigitText(d) == <<"0", "1", "2", "3", "4", "5", "6", "7", "8", "9">>[d + 1]

\* the decimal digits of a natural number
RECURSIVE DecimalText(_)
DecimalText(n) ==
    IF n < 10 THEN <<DigitText(n)>> ELSE DecimalText(n \div 10) \o <<DigitText(n % 10)>>

\* the decimal digits of n, padded with zeros to the width
RECURSIVE Pad(_, _)
Pad(n, width) ==
    IF width <= 1 THEN DecimalText(n) ELSE
    IF Len(DecimalText(n)) >= width THEN DecimalText(n)
    ELSE Pad(n \div 10, width - 1) \o <<DigitText(n % 10)>>

\* the id of a row as the string the store gave it
IdText(id) == <<"t">> \o DecimalText(id)

\* year, month and day of the day number z (days since 1970-01-01, proleptic Gregorian)
CivilFromDays(z) ==
    LET zz == z + 719468
        era == zz \div 146097
        doe == zz - era * 146097
        yoe == (doe - doe \div 1460 + doe \div 36524 - doe \div 146096) \div 365
        doy == doe - (365 * yoe + yoe \div 4 - yoe \div 100)
        mp == (5 * doy + 2) \div 153
        d == doy - (153 * mp + 2) \div 5 + 1
        m == IF mp < 10 THEN mp + 3 ELSE mp - 9
        y == yoe + era * 400 + (IF m <= 2 THEN 1 ELSE 0)
    IN [y |-> y, m |-> m, d |-> d]

\* the characters of the ISO-8601 timestamp YYYY-MM-DDTHH:mm:ss.sssZ
IsoText(iso) ==
    LET civil == CivilFromDays(iso[1])
        ms == iso[2] * (86400000 \div TicksPerDay)
    IN Pad(civil.y, 4) \o <<"-">> \o Pad(civil.m, 2) \o <<"-">> \o Pad(civil.d, 2)
         \o <<"T">> \o Pad(ms \div 3600000, 2)
         \o <<":">> \o Pad((ms % 3600000) \div 60000, 2)
         \o <<":">> \o Pad((ms % 60000) \div 1000, 2)
         \o <<".">> \o Pad(ms % 1000, 3) \o <<"Z">>

\* Number.prototype.toFixed(2) of an amount in cents: the integer part and two decimals
toFixed2(amount) == DecimalText(amount \div 100) \o <<".">> \o Pad(amount % 100, 2)

\* `"${x}"`: the text between double quotes
quoted(x) == <<"\"">> \o x \o <<"\"">>

\* Array.prototype.join
RECURSIVE join(_, _)
join(parts, sep) ==
    IF parts = <<>> THEN <<>>
    ELSE IF Len(parts) = 1 THEN parts[1]
    ELSE parts[1] \o sep \o join(Tail(parts), sep)

CsvHeaders ==
    <<"ID", "Customer Name", "Customer Email", "Amount", "Currency", "Status", "Type",
      "Description", "Date">>

\* mutant: a null description is interpolated as it is
csvRow_NullDescription(t) ==
    <<IdText(t.id),
      quoted(t.customerName),
      t.customerEmail,
      toFixed2(t.amount),
      Text(t.currency),
      Text(t.status),
      Text(t.type),
      quoted(IF t.description = NULL THEN <<"n", "u", "l", "l">> ELSE Text(t.description)),
      IsoText(toISOString(parseDate(t.createdAt)))>>

\* the fields of the row of one transaction
csvRow(t) ==
    <<IdText(t.id),
      quoted(t.customerName),
      t.customerEmail,
      toFixed2(t.amount),
      Text(t.currency),
      Text(t.status),
      Text(t.type),
      quoted(Text(IF IsTruthy(t.description) THEN t.description ELSE "")),
      IsoText(toISOString(parseDate(t.createdAt)))>>

\* mutant: every line, the last one too, ends with a newline
generateCSV_TrailingNewline(txs) ==
    join(<<join([i \in 1..Len(CsvHeaders) |-> Text(CsvHeaders[i])], <<",">>)>> \o
         [i \in 1..Len(txs) |-> join(csvRow(txs[i]), <<",">>)],
         <<"\n">>) \o <<"\n">>

\* the CSV text: the header and the rows, fields joined by "," and lines by "\n"
generateCSV(txs) ==
    join(<<join([i \in 1..Len(CsvHeaders) |-> Text(CsvHeaders[i])], <<",">>)>> \o
         [i \in 1..Len(txs) |-> join(csvRow(txs[i]), <<",">>)],
         <<"\n">>)

-----------------------------------------------------------------------------
(* Request handlers: dashboard page, reports page, CSV export endpoint *)

\* Number.parseInt(s, 10) of the page parameter
parseInt(s) ==
    CASE s = "0" -> 0
      [] s = "1" -> 1
      [] s = "2" -> 2

\* `x || dflt` for an optional string
OrString(x, dflt) == IF IsTruthy(x) THEN x ELSE dflt
OrText(x, dflt) == IF IsTruthyText(x) THEN x ELSE dflt

\* the organization a signed-in user's queries are made for: the user's own, or the
\* demo organization for a user without one (null when there is none)
organizationIdFor(db, session) ==
    IF IsTruthy(session.organizationId) THEN session.organizationId
    ELSE getDemoOrganization(db)

\* what DashboardPage may render
DashboardPage(db, session, params) ==
    IF ~session.signedIn THEN {[kind |-> "redirect", to |-> "/auth/signin"]}
    ELSE IF organizationIdFor(db, session) = NULL
    THEN {[kind |-> "page", message |-> "No organization found"]}
    ELSE LET organizationId == organizationIdFor(db, session)
             page == parseInt(OrString(params.page, "1"))
             status == OrString(params.status, "")
             search == OrText(params.search, EmptyText)
         IN { IF IsThrown(transactionsData) THEN [kind |-> "error"]
              ELSE [kind |-> "page",
                    kpiData |-> getKPIData(db, organizationId),
                    chartData |-> getChartData(db, organizationId, 30),
                    transactionsData |-> transactionsData] :
              transactionsData \in
                  getTransactions(db, [organizationId |-> organizationId, page |-> page,
                                       pageSize |-> 10, status |-> status,
                                       search |-> search]) }

\* what ReportsPage may render
ReportsPage(db, session, params) ==
    IF ~session.signedIn THEN {[kind |-> "redirect", to |-> "/auth/signin"]}
    ELSE IF organizationIdFor(db, session) = NULL
    THEN {[kind |-> "page", message |-> "No organization found"]}
    ELSE { IF IsThrown(reportData) THEN [kind |-> "error"]
           ELSE [kind |-> "page", reportData |-> reportData] :
           reportData \in
               getReportData(db, [organizationId |-> organizationIdFor(db, session),
                                  startDate |-> params.startDate,
                                  endDate |-> params.endDate,
                                  status |-> params.status,
                                  type |-> params.type]) }

\* mutant: the schema knows the enums
exportSchemaSuccess_Enums(params) ==
    /\ \A k \in {"startDate", "endDate", "status", "type"} : params[k] \in STRING
    /\ params.status \in Statuses \cup {"all", NULL}
    /\ params.type \in Types \cup {"all", NULL}

\* exportSchema.safeParse: four optional strings
exportSchemaSuccess(params) ==
    \A k \in {"startDate", "endDate", "status", "type"} : params[k] \in STRING

\* what GET /api/reports/export may answer
ExportGET(db, session, searchParams) ==
    IF ~session.signedIn THEN {[status |-> 401, error |-> "Unauthorized"]}
    ELSE IF organizationIdFor(db, session) = NULL
    THEN {[status |-> 404, error |-> "No organization found"]}
    ELSE LET params == [startDate |-> OrString(searchParams.startDate, NULL),
                        endDate |-> OrString(searchParams.endDate, NULL),
                        status |-> OrString(searchParams.status, NULL),
                        type |-> OrString(searchParams.type, NULL)]
         IN IF ~exportSchemaSuccess(params)
            THEN {[status |-> 400, error |-> "Invalid parameters"]}
            ELSE { IF IsThrown(report)
                   THEN [status |-> 500, error |-> "Failed to generate export"]
                   ELSE [status |-> 200, csv |-> generateCSV(report.transactions)] :
                   report \in
                       getReportData(db, [organizationId |-> organizationIdFor(db, session),
                                          startDate |-> params.startDate,
                                          endDate |-> params.endDate,
                                          status |-> params.status,
                                          type |-> params.type]) }

-----------------------------------------------------------------------------
(* Snapshots of the Data Store *)

\* the seeded organization is "acme-corp"
OrganizationRows ==
    { [id |-> "org1", slug |-> "acme-corp"], [id |-> "org2", slug |-> "globex"] }

CustomerRows ==
    { [id |-> "c1", organizationId |-> "org1", name |-> <<"A", "c">>, email |-> <<"a", "@", "x">>],
      [id |-> "c2", organizationId |-> "org1", name |-> NullText, email |-> <<"b", "@", "x">>],
      [id |-> "c3", organizationId |-> "org2", name |-> <<"B", "a">>, email |-> <<"c", "@", "y">>] }

\* the customer of the i-th transaction of an organization
CustomerIdFor(org, i) ==
    IF org = "org1" THEN (IF i % 2 = 1 THEN "c1" ELSE "c2") ELSE "c3"

RECURSIVE Pow2(_)
Pow2(n) == IF n = 0 THEN 1 ELSE 2 * Pow2(n - 1)

\* amounts in cents; distinct rows have amounts with distinct subset sums
AmountFor(i) == 1050 * Pow2(i - 1)

\* the Transaction row with id i made from a template [organizationId, status, type, createdAt]
TransactionRow(i, tpl) ==
    [id |-> i,
     organizationId |-> tpl.organizationId,
     customerId |-> CustomerIdFor(tpl.organizationId, i),
     amount |-> AmountFor(i),
     currency |-> "USD",
     status |-> tpl.status,
     type |-> tpl.type,
     description |-> IF i % 2 = 1 THEN "Payment" ELSE NULL,
     createdAt |-> tpl.createdAt]

\* the snapshots of the Transaction table with at most max rows whose rows are drawn
\* from a catalogue (a sequence of templates); ids are given in catalogue order, which
\* leaves out only snapshots that differ from one of these by a renaming of the ids
TransactionSnapshots(catalogue, max) ==
    UNION { { {TransactionRow(i, catalogue[idx[i]]) : i \in 1..n} :
              idx \in {f \in [1..n -> 1..Len(catalogue)] :
                          \A i \in 1..(n - 1) : f[i] <= f[i + 1]} } :
            n \in 0..max }

\* instants around the boundaries of day 1: the last tick of day 0, the first and the
\* last tick of day 1, the first tick of day 2
LastOfDay0 == endOfDay(0)
FirstOfDay1 == startOfDay(TicksPerDay)
LastOfDay1 == endOfDay(TicksPerDay)
FirstOfDay2 == startOfDay(2 * TicksPerDay)

OrgSeq == <<"org1", "org2">>

\* catalogue of the transaction listing: both organizations, two statuses, two instants
\* (so that rows tie on createdAt, as the rows the seed script creates for one day do)
ListingCatalogue ==
    [c \in 1..8 |->
        [organizationId |-> OrgSeq[((c - 1) % 2) + 1],
         status |-> <<"COMPLETED", "PENDING">>[(((c - 1) \div 2) % 2) + 1],
         type |-> "PAYMENT",
         createdAt |-> <<FirstOfDay1, LastOfDay1>>[((c - 1) \div 4) + 1]]]

NoCall == [op |-> "none"]

InitListing ==
    /\ organizations = OrganizationRows
    /\ customers = CustomerRows
    /\ transactions \in TransactionSnapshots(ListingCatalogue, MaxTx)
    /\ dailyMetrics = {}
    /\ now = FirstOfDay2
    /\ call = NoCall
    /\ result = NoCall
    /\ pages = <<>>
    /\ WebIdle

-----------------------------------------------------------------------------
(* Calls of getTransactions *)

StatusInputs == {NULL, "", "all", "PENDING", "FAILED", "BOGUS"}
SearchInputs == {NullText, EmptyText, <<"A">>, <<"B">>}

ListingFilters ==
    [organizationId : Orgs, status : StatusInputs, search : SearchInputs,
     page : 1..(MaxTx + 1), pageSize : 1..MaxPageSize]

\* Math.ceil(totalCount / pageSize)
totalPages(totalCount, pageSize) == (totalCount + pageSize - 1) \div pageSize

\* one call of getTransactions; a client that asked for page 1 starts paging
GetTransactions ==
    /\ call = NoCall
    /\ \E filters \in ListingFilters :
      \E r \in getTransactions(DB, filters) :
        /\ call' = [op |-> "getTransactions", filters |-> filters]
        /\ result' = r
        /\ pages' = IF filters.page = 1 /\ ~IsThrown(r) THEN <<r.transactions>> ELSE <<>>
        /\ UNCHANGED <<store, now, web>>

\* the client asks for the next page of the same listing (same filters, page + 1)
GetNextPage ==
    /\ call.op = "getTransactions"
    /\ pages # <<>>
    /\ Len(pages) = result.page
    /\ result.page < totalPages(result.totalCount, result.pageSize)
    /\ LET filters == [call.filters EXCEPT !.page = @ + 1]
       IN \E r \in getTransactions(DB, filters) :
            /\ call' = [op |-> "getTransactions", filters |-> filters]
            /\ result' = r
            /\ pages' = Append(pages, r.transactions)
            /\ UNCHANGED <<store, now, web>>

\* the caller has taken the returned value: the request is over
Return ==
    /\ call # NoCall
    /\ call' = NoCall
    /\ result' = NoCall
    /\ pages' = <<>>
    /\ UNCHANGED <<store, now, web>>

NextListing == GetTransactions \/ GetNextPage \/ Return

SpecListing == InitListing /\ [][NextListing]_vars

-----------------------------------------------------------------------------
(* Properties of getTransactions *)

RECURSIVE Concat(_)
Concat(ss) == IF ss = <<>> THEN <<>> ELSE Head(ss) \o Concat(Tail(ss))

IsListingCall == call.op = "getTransactions" /\ ~IsThrown(result)

\* the transactions a listing is about, stated from the filters' meaning: the rows of
\* the organization, with the status when one of the four is asked for, whose customer's
\* name or e-mail contains the search text when one is given
ListingMatches(f, t) ==
    /\ t.organizationId = f.organizationId
    /\ f.status \in Statuses => t.status = f.status
    /\ (f.search # NullText /\ f.search # EmptyText) =>
          \E c \in customers :
              /\ c.id = t.customerId
              /\ \/ c.name # NullText /\ contains(toLower(c.name), toLower(f.search))
                 \/ contains(toLower(c.email), toLower(f.search))

ListingMatching(f) == {t \in transactions : ListingMatches(f, t)}

\* a later ISO timestamp is the greater one, day first
IsoGeq(a, b) == a[1] > b[1] \/ (a[1] = b[1] /\ a[2] >= b[2])

\* the client has loaded every page 1..ceil(totalCount/pageSize) of one listing
AllPagesLoaded ==
    /\ IsListingCall
    /\ pages # <<>>
    /\ Len(pages) >= totalPages(result.totalCount, result.pageSize)

\* C3: the pages 1..ceil(totalCount/pageSize) of a listing, concatenated in order, hold
\* every matching transaction exactly once, in createdAt-descending order
C3_PagesReproduceResultSet ==
    AllPagesLoaded =>
        LET all == Concat(pages)
        IN /\ \A i, j \in 1..Len(all) : i # j => all[i].id # all[j].id
           /\ {all[i].id : i \in 1..Len(all)} = {t.id : t \in ListingMatching(call.filters)}
           /\ \A i \in 1..(Len(all) - 1) : IsoGeq(all[i].createdAt, all[i + 1].createdAt)

\* C4: totalCount is the number of the organization's transactions that match the
\* filters, whatever the page and the page size, also beyond the last page
C4_TotalCountStable ==
    IsListingCall => result.totalCount = Cardinality(ListingMatching(call.filters))

\* C4 witness: a call for a page beyond the last one of a non-empty listing
C4_Witness ==
    /\ IsListingCall
    /\ result.totalCount >= 2
    /\ call.filters.page > totalPages(result.totalCount, result.pageSize)
    /\ result.transactions = <<>>

\* C5: what a call with status "all" returned is what the same call with the status
\* omitted may return, and the other way round
C5_StatusAllIsOmitted ==
    IsListingCall =>
        /\ call.filters.status = "all" =>
              result \in getTransactions(DB, [call.filters EXCEPT !.status = NULL])
        /\ call.filters.status = NULL =>
              result \in getTransactions(DB, [call.filters EXCEPT !.status = "all"])

\* C5 witness: a call with status "all" over rows of several statuses
C5_Witness ==
    /\ IsListingCall
    /\ call.filters.status = "all"
    /\ \E i, j \in 1..Len(result.transactions) :
          result.transactions[i].status # result.transactions[j].status

-----------------------------------------------------------------------------
(* Calls of getReportData *)

\* (status, type) pairs of the report rows: every status occurs
ReportKinds ==
    << [status |-> "COMPLETED", type |-> "PAYMENT"],
       [status |-> "PENDING", type |-> "SUBSCRIPTION"],
       [status |-> "FAILED", type |-> "PAYMENT"],
       [status |-> "REFUNDED", type |-> "REFUND"] >>

BoundaryInstants == <<LastOfDay0, FirstOfDay1, LastOfDay1, FirstOfDay2>>

\* catalogue of the reports: rows of org1 of every kind at every boundary instant, and
\* completed payments of org2 at every boundary instant
ReportCatalogue ==
    [c \in 1..20 |->
        IF c <= 16
        THEN [organizationId |-> "org1",
              status |-> ReportKinds[((c - 1) % 4) + 1].status,
              type |-> ReportKinds[((c - 1) % 4) + 1].type,
              createdAt |-> BoundaryInstants[((c - 1) \div 4) + 1]]
        ELSE [organizationId |-> "org2",
              status |-> "COMPLETED",
              type |-> "PAYMENT",
              createdAt |-> BoundaryInstants[c - 16]]]

InitReports ==
    /\ organizations = OrganizationRows
    /\ customers = CustomerRows
    /\ transactions \in TransactionSnapshots(ReportCatalogue, MaxTx - 1)
    /\ dailyMetrics = {}
    /\ now = FirstOfDay2
    /\ call = NoCall
    /\ result = NoCall
    /\ pages = <<>>
    /\ WebIdle

StartDateInputs == {NULL, "", "1970-01-02", "1970-01-02T12:00"}
EndDateInputs == {NULL, "1970-01-02"}
ReportStatusInputs == {NULL, "all", "COMPLETED"}
ReportTypeInputs == {NULL, "all", "REFUND"}

\* filters the store accepts
ValidReportFilters ==
    [organizationId : Orgs, startDate : StartDateInputs, endDate : EndDateInputs,
     status : ReportStatusInputs, type : ReportTypeInputs]

NoReportFilter(org) ==
    [organizationId |-> org, startDate |-> NULL, endDate |-> NULL,
     status |-> NULL, type |-> NULL]

\* filters with a malformed date or a value outside an enum
InvalidReportFilters ==
    UNION { { [NoReportFilter(org) EXCEPT !.startDate = "not-a-date"],
              [NoReportFilter(org) EXCEPT !.endDate = "not-a-date"],
              [NoReportFilter(org) EXCEPT !.status = "BOGUS"],
              [NoReportFilter(org) EXCEPT !.type = "BOGUS"] } : org \in Orgs }

ReportFilters == ValidReportFilters \cup InvalidReportFilters

\* one call of getReportData
GetReportData ==
    /\ call = NoCall
    /\ \E filters \in ReportFilters :
         \E r \in getReportData(DB, filters) :
           /\ call' = [op |-> "getReportData", filters |-> filters]
           /\ result' = r
           /\ UNCHANGED <<store, now, pages, web>>

NextReports == GetReportData \/ Return

SpecReports == InitReports /\ [][NextReports]_vars

-----------------------------------------------------------------------------
(* Properties of getReportData *)

IsReportCall == call.op = "getReportData" /\ ~IsThrown(result)

\* C6: the four per-status counts add up to totalTransactions, which is the length of
\* the returned list
C6_CountsPartition ==
    IsReportCall =>
        /\ result.summary.completedCount + result.summary.pendingCount
             + result.summary.failedCount + result.summary.refundedCount
           = result.summary.totalTransactions
        /\ result.summary.totalTransactions = Len(result.transactions)

\* C6 witness: a report that holds a refunded row and a row of another status
C6_Witness ==
    /\ IsReportCall
    /\ result.summary.refundedCount >= 1
    /\ result.summary.totalTransactions > result.summary.refundedCount

\* C7: totalRevenue is the sum of the amounts of exactly the returned COMPLETED rows
C7_RevenueOfCompleted ==
    IsReportCall =>
        LET returned == result.transactions
            completed == {i \in 1..Len(returned) : returned[i].status = "COMPLETED"}
        IN /\ result.summary.totalRevenue
                = SetSum([i \in 1..Len(returned) |-> returned[i].amount], completed)
           /\ completed = {} => result.summary.totalRevenue = 0

\* C7 witness: a report with a completed row and a row that is not completed
C7_Witness ==
    /\ IsReportCall
    /\ result.summary.completedCount >= 1
    /\ result.summary.totalTransactions > result.summary.completedCount
    /\ result.summary.totalRevenue > 0

\* the calendar day a date filter names
DayOfDateString(s) ==
    CASE s = "1970-01-01" -> 0
      [] s \in {"1970-01-02", "1970-01-02T12:00"} -> 1
      [] s = "1970-01-03" -> 2

DateGiven(s) == s # NULL /\ s # ""

\* the rows a report is about, stated from the filters' meaning
ReportMatches(f, t) ==
    /\ t.organizationId = f.organizationId
    /\ DateGiven(f.startDate) => t.createdAt >= DayOfDateString(f.startDate) * TicksPerDay
    /\ DateGiven(f.endDate) => t.createdAt < (DayOfDateString(f.endDate) + 1) * TicksPerDay
    /\ f.status \in Statuses => t.status = f.status
    /\ f.type \in Types => t.type = f.type

\* C8: the report holds all and only the organization's transactions that satisfy the
\* filters, each once; both date bounds are inclusive of their whole calendar day
C8_ReportRowsExactlyMatching ==
    IsReportCall =>
        /\ {result.transactions[i].id : i \in 1..Len(result.transactions)}
             = {t.id : t \in {u \in transactions : ReportMatches(call.filters, u)}}
        /\ Len(result.transactions)
             = Cardinality({u \in transactions : ReportMatches(call.filters, u)})

\* C8 witness: a report bounded on both sides that keeps a row of the last instant of
\* the end day and leaves out a row of the organization dated outside the range
C8_Witness ==
    /\ IsReportCall
    /\ DateGiven(call.filters.startDate)
    /\ DateGiven(call.filters.endDate)
    /\ \E i \in 1..Len(result.transactions) :
          result.transactions[i].createdAt = toISOString(LastOfDay1)
    /\ \E t \in transactions :
          /\ t.organizationId = call.filters.organizationId
          /\ t.createdAt \in {LastOfDay0, FirstOfDay2}

\* C9: what a report with status "all" (or type "all") returned is what the same call
\* without the status (or type) may return, and the other way round
C9_ReportAllIsOmitted ==
    IsReportCall =>
        /\ call.filters.status = "all" =>
              result \in getReportData(DB, [call.filters EXCEPT !.status = NULL])
        /\ call.filters.status = NULL =>
              result \in getReportData(DB, [call.filters EXCEPT !.status = "all"])
        /\ call.filters.type = "all" =>
              result \in getReportData(DB, [call.filters EXCEPT !.type = NULL])
        /\ call.filters.type = NULL =>
              result \in getReportData(DB, [call.filters EXCEPT !.type = "all"])

\* C9 witness: a report with type "all" that holds rows of several types
C9_Witness ==
    /\ IsReportCall
    /\ call.filters.type = "all"
    /\ \E i, j \in 1..Len(result.transactions) :
          result.transactions[i].type # result.transactions[j].type

-----------------------------------------------------------------------------
(* Calls of getKPIData and getChartData *)

\* today is day 61, so that today - 60 days is day 1 and today - 61 days is day 0
TodayStart == startOfDay(61 * TicksPerDay)

\* the dates of the DailyMetric rows: today and the days around the ends of the two periods
MetricDates ==
    { TodayStart, subDays(TodayStart, 30), subDays(TodayStart, 31),
      subDays(TodayStart, 60), subDays(TodayStart, 61) }

\* the values of a DailyMetric row (revenue in whole currency units, conversionRate in percent)
MetricValues ==
    { [revenue |-> 0, activeUsers |-> 0, churnedCustomers |-> 0, totalCustomers |-> 0,
       conversionRate |-> 0],
      [revenue |-> 500, activeUsers |-> 0, churnedCustomers |-> 0, totalCustomers |-> 10,
       conversionRate |-> 0],
      [revenue |-> 500, activeUsers |-> 30, churnedCustomers |-> 3, totalCustomers |-> 30,
       conversionRate |-> 2],
      [revenue |-> 1000, activeUsers |-> 45, churnedCustomers |-> 1, totalCustomers |-> 20,
       conversionRate |-> 5] }

DailyMetricRow(org, date, v) ==
    [organizationId |-> org, date |-> date, revenue |-> v.revenue,
     activeUsers |-> v.activeUsers, churnedCustomers |-> v.churnedCustomers,
     totalCustomers |-> v.totalCustomers, conversionRate |-> v.conversionRate]

\* rows of org1: at most one per date, of any of the values
Org1MetricSnapshots ==
    { {DailyMetricRow("org1", d, pick[d]) : d \in dates} :
      <<dates, pick>> \in UNION { {<<ds, f>> : f \in [ds -> MetricValues]} :
                                  ds \in SUBSET MetricDates } }

\* rows of org2: any of two rows, one in each period
Org2MetricSnapshots ==
    SUBSET { [organizationId |-> "org2", date |-> TodayStart, revenue |-> 1000,
              activeUsers |-> 45, churnedCustomers |-> 1, totalCustomers |-> 20,
              conversionRate |-> 5],
             [organizationId |-> "org2", date |-> subDays(TodayStart, 31), revenue |-> 500,
              activeUsers |-> 30, churnedCustomers |-> 3, totalCustomers |-> 30,
              conversionRate |-> 2] }

InitMetrics ==
    /\ organizations = OrganizationRows
    /\ customers = CustomerRows
    /\ transactions = {}
    /\ \E m1 \in Org1MetricSnapshots, m2 \in Org2MetricSnapshots : dailyMetrics = m1 \cup m2
    /\ now \in {TodayStart - 1, TodayStart, TodayStart + 1}
    /\ call = NoCall
    /\ result = NoCall
    /\ pages = <<>>
    /\ WebIdle

ChartDaysInputs == {0, 1, 30, 61}

\* mutant: the call stores a row of today for the organization when there is none
GetKPIData_Upserting ==
    /\ call = NoCall
    /\ \E organizationId \in Orgs :
         /\ call' = [op |-> "getKPIData", organizationId |-> organizationId]
         /\ result' = getKPIData(DB, organizationId)
         /\ dailyMetrics' =
              IF \E m \in dailyMetrics :
                     m.organizationId = organizationId /\ m.date = startOfDay(now)
              THEN dailyMetrics
              ELSE dailyMetrics \cup
                     {[organizationId |-> organizationId, date |-> startOfDay(now),
                       revenue |-> 0, activeUsers |-> 0, churnedCustomers |-> 0,
                       totalCustomers |-> 0, conversionRate |-> 0]}
         /\ UNCHANGED <<organizations, customers, transactions, now, pages, web>>

\* one call of getKPIData
GetKPIData ==
    /\ call = NoCall
    /\ \E organizationId \in Orgs :
         /\ call' = [op |-> "getKPIData", organizationId |-> organizationId]
         /\ result' = getKPIData(DB, organizationId)
         /\ UNCHANGED <<store, now, pages, web>>

\* one call of getChartData
GetChartData ==
    /\ call = NoCall
    /\ \E organizationId \in Orgs, days \in ChartDaysInputs :
         /\ call' = [op |-> "getChartData", organizationId |-> organizationId, days |-> days]
         /\ result' = [series |-> getChartData(DB, organizationId, days)]
         /\ UNCHANGED <<store, now, pages, web>>

NextMetrics == GetKPIData \/ GetChartData \/ Return

SpecMetrics == InitMetrics /\ [][NextMetrics]_vars

-----------------------------------------------------------------------------
(* Properties of getKPIData *)

IsKPICall == call.op = "getKPIData"

\* change = (cur - prev) / prev * 100 when prev > 0, and 0 otherwise; cur and prev are
\* fractions n/d with d > 0, and the equation is cross-multiplied
IsPercentChange(change, cur, prev) ==
    IF prev.n > 0
    THEN /\ change.d # 0
         /\ change.n * prev.n * cur.d = (cur.n * prev.d - prev.n * cur.d) * 100 * change.d
    ELSE change = [n |-> 0, d |-> 1]

\* the four values of a period as fractions: the revenue sum, the active-users sum over 30,
\* the average conversion rate, and churned / (totalCustomers / 30) * 100 with a total of 0
\* replaced by 1
PeriodValues(agg) ==
    [revenue |-> [n |-> agg.revenue, d |-> 1],
     activeUsers |-> [n |-> agg.activeUsers, d |-> 30],
     conversion |-> IF agg.isNull THEN [n |-> 0, d |-> 1] ELSE agg.conversionRate,
     churn |-> [n |-> agg.churnedCustomers * 30 * 100,
                d |-> IF agg.totalCustomers = 0 THEN 1 ELSE agg.totalCustomers]]

\* C10: each change is (curr - prev) / prev * 100 when prev > 0 and 0 otherwise, hence
\* finite; 1000 against 500 gives 100, and a previous sum of 0 gives 0
C10_PercentChanges ==
    IsKPICall =>
        LET cur == PeriodValues(currentMetrics(DB, call.organizationId, now))
            prev == PeriodValues(previousMetrics(DB, call.organizationId, now))
        IN /\ IsPercentChange(result.revenueChange, cur.revenue, prev.revenue)
           /\ IsPercentChange(result.activeUsersChange, cur.activeUsers, prev.activeUsers)
           /\ IsPercentChange(result.conversionChange, cur.conversion, prev.conversion)
           /\ IsPercentChange(result.churnChange, cur.churn, prev.churn)
           /\ (cur.revenue.n = 1000 /\ prev.revenue.n = 500) =>
                 result.revenueChange = [n |-> 100, d |-> 1]
           /\ (prev.revenue.n = 0 /\ cur.revenue.n > 0) =>
                 result.revenueChange = [n |-> 0, d |-> 1]

\* C10 witness: a current revenue sum of 1000 against a previous sum of 500, with no
\* churn in the previous period while customers churned in the current one
C10_Witness ==
    /\ IsKPICall
    /\ currentMetrics(DB, call.organizationId, now).revenue = 1000
    /\ previousMetrics(DB, call.organizationId, now).revenue = 500
    /\ result.revenueChange = [n |-> 100, d |-> 1]
    /\ previousMetrics(DB, call.organizationId, now).churnedCustomers = 0
    /\ currentMetrics(DB, call.organizationId, now).churnedCustomers > 0
    /\ result.churnChange = [n |-> 0, d |-> 1]

\* the organization of the call has no DailyMetric row dated in [today - 60 days, today]
NoRowsInBothWindows ==
    ~ \E m \in dailyMetrics :
          /\ m.organizationId = call.organizationId
          /\ m.date >= now - 60 * TicksPerDay
          /\ m.date <= now

KPIZero == [n |-> 0, d |-> 1]

\* C11: for an organization without a DailyMetric row in either window, getKPIData returns
\* revenue, activeUsers, conversionRate and churnRate equal to 0 and the four changes
\* equal to 0
C11_ZeroWithoutRows ==
    (IsKPICall /\ NoRowsInBothWindows) =>
        /\ result.revenue = KPIZero
        /\ result.activeUsers = 0
        /\ result.conversionRate = KPIZero
        /\ result.churnRate = KPIZero
        /\ result.revenueChange = KPIZero
        /\ result.activeUsersChange = KPIZero
        /\ result.conversionChange = KPIZero
        /\ result.churnChange = KPIZero

\* C11 witness: getKPIData has answered for an organization all of whose rows, with
\* revenue among them, are dated outside both windows
C11_Witness ==
    /\ IsKPICall
    /\ NoRowsInBothWindows
    /\ \E m \in dailyMetrics : m.organizationId = call.organizationId /\ m.revenue > 0
    /\ result.revenue = KPIZero
    /\ result.churnRate = KPIZero

\* C12: the two windows of getKPIData, both taken from one reading of today, never overlap:
\* a row of the organization dated in [today - 60 days, today] is counted in exactly one
\* aggregate, a row dated exactly today - 30 days in the current one only, a row dated
\* outside in neither; the answer is computed from these two sets of rows
C12_WindowsPartition ==
    IsKPICall =>
        LET today == now
            rows == {m \in dailyMetrics : m.organizationId = call.organizationId}
            cur == currentRows(DB, call.organizationId, today)
            prev == previousRows(DB, call.organizationId, today)
            curRevenue == SetSum([m \in cur |-> m.revenue], cur)
            prevRevenue == SetSum([m \in prev |-> m.revenue], prev)
        IN /\ cur \subseteq rows /\ prev \subseteq rows
           /\ \A m \in rows :
                /\ (m.date >= today - 60 * TicksPerDay /\ m.date <= today) =>
                       ((m \in cur) # (m \in prev))
                /\ (m.date = today - 30 * TicksPerDay) => (m \in cur /\ m \notin prev)
                /\ (m.date < today - 60 * TicksPerDay \/ m.date > today) =>
                       (m \notin cur /\ m \notin prev)
           /\ result.revenue = [n |-> curRevenue, d |-> 1]
           /\ IsPercentChange(result.revenueChange,
                              [n |-> curRevenue, d |-> 1], [n |-> prevRevenue, d |-> 1])

\* C12 witness: getKPIData has answered for an organization with a row dated exactly
\* today - 30 days, a row dated exactly today - 60 days and a row older than that
C12_Witness ==
    /\ IsKPICall
    /\ \E a, b, c \in dailyMetrics :
         /\ a.organizationId = call.organizationId /\ a.date = now - 30 * TicksPerDay
         /\ b.organizationId = call.organizationId /\ b.date = now - 60 * TicksPerDay
         /\ c.organizationId = call.organizationId /\ c.date < now - 60 * TicksPerDay
         /\ a.revenue = 1000 /\ b.revenue = 500 /\ c.revenue = 500
         /\ result.revenue = [n |-> 1000, d |-> 1]
         /\ result.revenueChange = [n |-> 100, d |-> 1]

\* the rows of the organization of the call dated in [today - 30 days, today]
RowsOfCurrentWindow ==
    {m \in dailyMetrics :
        /\ m.organizationId = call.organizationId
        /\ m.date >= now - 30 * TicksPerDay
        /\ m.date <= now}

\* C13: churnRate is currentChurned / (currentTotalCustomers / 30) * 100, a total of 0 (or
\* no rows) being replaced by 1 before the division, so it is always finite; a total of 30
\* with 3 churned gives exactly 300
C13_ChurnRate ==
    IsKPICall =>
        LET rows == RowsOfCurrentWindow
            total == SetSum([m \in rows |-> m.totalCustomers], rows)
            churned == SetSum([m \in rows |-> m.churnedCustomers], rows)
            base == IF total = 0 THEN 1 ELSE total
        IN /\ result.churnRate.d # 0
           /\ result.churnRate.n * base = churned * 30 * 100 * result.churnRate.d
           /\ (total = 30 /\ churned = 3) => result.churnRate = [n |-> 300, d |-> 1]

\* C13 witness: getKPIData has answered 300 for a window with 30 customers and 3 churned
C13_Witness ==
    /\ IsKPICall
    /\ SetSum([m \in RowsOfCurrentWindow |-> m.totalCustomers], RowsOfCurrentWindow) = 30
    /\ SetSum([m \in RowsOfCurrentWindow |-> m.churnedCustomers], RowsOfCurrentWindow) = 3
    /\ result.churnRate = [n |-> 300, d |-> 1]

\* C13 witness of the guard: the window has rows whose totalCustomers add up to 0
C13_WitnessZeroTotal ==
    /\ IsKPICall
    /\ RowsOfCurrentWindow # {}
    /\ SetSum([m \in RowsOfCurrentWindow |-> m.totalCustomers], RowsOfCurrentWindow) = 0
    /\ result.churnRate = [n |-> 0, d |-> 1]

\* the rows of the organization of the call dated in [today - 60 days, today - 30 days)
RowsOfPreviousWindow ==
    {m \in dailyMetrics :
        /\ m.organizationId = call.organizationId
        /\ m.date >= now - 60 * TicksPerDay
        /\ m.date < now - 30 * TicksPerDay}

\* the nearest integer of n / 30 for n >= 0, halves rounded up
RoundOver30(n) == (n + 15) \div 30

\* C14: activeUsers is the current sum of activeUsers divided by 30 and rounded to the
\* nearest integer, whatever the number of rows in the window, and activeUsersChange is
\* computed from the unrounded quotients sum / 30
C14_ActiveUsersOver30 ==
    IsKPICall =>
        LET cur == RowsOfCurrentWindow
            prev == RowsOfPreviousWindow
            curSum == SetSum([m \in cur |-> m.activeUsers], cur)
            prevSum == SetSum([m \in prev |-> m.activeUsers], prev)
        IN /\ result.activeUsers = RoundOver30(curSum)
           /\ IsPercentChange(result.activeUsersChange,
                              [n |-> curSum, d |-> 30], [n |-> prevSum, d |-> 30])

\* C14 witness: one row with 45 active users in the current window and one with 30 in the
\* previous one: activeUsers is 2 (1.5 rounded) and the change is 50, not 100
C14_Witness ==
    /\ IsKPICall
    /\ Cardinality(RowsOfCurrentWindow) = 1
    /\ Cardinality(RowsOfPreviousWindow) = 1
    /\ \E m \in RowsOfCurrentWindow : m.activeUsers = 45
    /\ \E m \in RowsOfPreviousWindow : m.activeUsers = 30
    /\ result.activeUsers = 2
    /\ result.activeUsersChange = [n |-> 50, d |-> 1]

-----------------------------------------------------------------------------
(* Properties of getChartData *)

IsChartCall == call.op = "getChartData"

\* the calendar day of an instant
DayOf(d) == d \div TicksPerDay

\* the rows of the organization of the call dated on a day of [today - days, today]
RowsOfChartWindow ==
    {m \in dailyMetrics :
        /\ m.organizationId = call.organizationId
        /\ DayOf(m.date) >= DayOf(now - call.days * TicksPerDay)
        /\ DayOf(m.date) <= DayOf(now)}

-----------------------------------------------------------------------------
(* Calls of generateCSV: on the list getReportData returns (the export endpoint), and on *)
(* lists of given rows                                                                   *)

\* names of the customer c1: plain, absent, with a comma, with a double quote
CsvNameInputs ==
    { <<"A", "c">>, NullText, <<"A", ",", "c">>, <<"A", "\"", "c">> }

\* descriptions of the transactions that have one
CsvDescriptionInputs == {"Payment", "Paid, thanks", ""}

\* 2024-01-15T00:00:00.000Z, 19737 days after 1970-01-01
Jan15Of2024 == startOfDay(19737 * TicksPerDay)

\* catalogue of the exported rows: both organizations, two kinds of rows
CsvCatalogue ==
    [c \in 1..4 |->
        [organizationId |-> OrgSeq[((c - 1) % 2) + 1],
         status |-> <<"COMPLETED", "REFUNDED">>[((c - 1) \div 2) + 1],
         type |-> <<"PAYMENT", "ONE_TIME">>[((c - 1) \div 2) + 1],
         createdAt |-> <<Jan15Of2024, LastOfDay1>>[((c - 1) \div 2) + 1]]]

InitCsv ==
    /\ organizations = OrganizationRows
    /\ \E name \in CsvNameInputs :
         customers = {IF c.id = "c1" THEN [c EXCEPT !.name = name] ELSE c : c \in CustomerRows}
    /\ \E rows \in TransactionSnapshots(CsvCatalogue, MaxTx - 1), d \in CsvDescriptionInputs :
         transactions = {IF t.description = NULL THEN t ELSE [t EXCEPT !.description = d] :
                            t \in rows}
    /\ dailyMetrics = {}
    /\ now = TodayStart
    /\ call = NoCall
    /\ result = NoCall
    /\ pages = <<>>
    /\ WebIdle

CsvFilters ==
    [organizationId : Orgs, startDate : {NULL}, endDate : {NULL},
     status : {NULL, "COMPLETED"}, type : {NULL}]

\* the rows of the scenario and of a refund with a description
CsvSampleRows ==
    { [id |-> 1, amount |-> 123450, currency |-> "USD", status |-> "COMPLETED",
       type |-> "PAYMENT", description |-> NULL, createdAt |-> toISOString(Jan15Of2024),
       customerName |-> <<"A", "c", "m", "e", " ", "C", "o">>,
       customerEmail |-> <<"a", "@", "a", "c", "m", "e", ".", "c", "o", "m">>],
      [id |-> 2, amount |-> 5, currency |-> "USD", status |-> "REFUNDED",
       type |-> "REFUND", description |-> "Payment", createdAt |-> toISOString(LastOfDay1),
       customerName |-> UnknownText,
       customerEmail |-> <<"b", "@", "x">>],
      [id |-> 3, amount |-> 100000, currency |-> "USD", status |-> "PENDING",
       type |-> "SUBSCRIPTION", description |-> "", createdAt |-> toISOString(FirstOfDay2),
       customerName |-> <<"B", "a">>,
       customerEmail |-> <<"c", "@", "y">>] }

\* the lists of at most MaxTx - 1 sample rows
CsvInputs ==
    UNION { [1..n -> CsvSampleRows] : n \in 0..(MaxTx - 1) }

\* the export: getReportData, then generateCSV of its transactions
ExportReport ==
    /\ call = NoCall
    /\ \E filters \in CsvFilters :
         \E report \in getReportData(DB, filters) :
           /\ call' = [op |-> "exportReport", filters |-> filters]
           /\ result' = [transactions |-> report.transactions,
                         csv |-> generateCSV(report.transactions)]
           /\ UNCHANGED <<store, now, pages, web>>

\* one call of generateCSV on a given list
GenerateCSV ==
    /\ call = NoCall
    /\ \E txs \in CsvInputs :
         /\ call' = [op |-> "generateCSV"]
         /\ result' = [transactions |-> txs, csv |-> generateCSV(txs)]
         /\ UNCHANGED <<store, now, pages, web>>

NextCsv == ExportReport \/ GenerateCSV \/ Return

SpecCsv == InitCsv /\ [][NextCsv]_vars

-----------------------------------------------------------------------------
(* Properties of generateCSV *)

IsCsvCall == call.op \in {"exportReport", "generateCSV"}

HeaderRowText ==
    <<"I", "D", ",", "C", "u", "s", "t", "o", "m", "e", "r", " ", "N", "a", "m", "e",
      ",", "C", "u", "s", "t", "o", "m", "e", "r", " ", "E", "m", "a", "i", "l",
      ",", "A", "m", "o", "u", "n", "t", ",", "C", "u", "r", "r", "e", "n", "c",
      "y", ",", "S", "t", "a", "t", "u", "s", ",", "T", "y", "p", "e", ",", "D",
      "e", "s", "c", "r", "i", "p", "t", "i", "o", "n", ",", "D", "a", "t", "e">>

\* C16: generateCSV of the empty list is exactly the header row
\* "ID,Customer Name,Customer Email,Amount,Currency,Status,Type,Description,Date", with no
\* data row and no trailing newline
C16_EmptyListGivesHeaderOnly ==
    (IsCsvCall /\ result.transactions = <<>>) => result.csv = HeaderRowText

\* C16 witness: the export of an organization that has no matching transaction, from a
\* store that holds transactions
C16_Witness ==
    /\ call.op = "exportReport"
    /\ transactions # {}
    /\ result.transactions = <<>>
    /\ result.csv = HeaderRowText

\* the transaction of the scenario: t1 of Acme Co, 1234.5, no description
ScenarioRow ==
    [id |-> 1, amount |-> 123450, currency |-> "USD", status |-> "COMPLETED",
     type |-> "PAYMENT", description |-> NULL, createdAt |-> <<19737, 0>>,
     customerName |-> <<"A", "c", "m", "e", " ", "C", "o">>,
     customerEmail |-> <<"a", "@", "a", "c", "m", "e", ".", "c", "o", "m">>]

ScenarioRowText ==
    <<"t", "1", ",", "\"", "A", "c", "m", "e", " ", "C", "o", "\"", ",", "a", "@", "a",
      "c", "m", "e", ".", "c", "o", "m", ",", "1", "2", "3", "4", ".", "5", "0",
      ",", "U", "S", "D", ",", "C", "O", "M", "P", "L", "E", "T", "E", "D", ",",
      "P", "A", "Y", "M", "E", "N", "T", ",", "\"", "\"", ",", "2", "0", "2", "4",
      "-", "0", "1", "-", "1", "5", "T", "0", "0", ":", "0", "0", ":", "0", "0",
      ".", "0", "0", "0", "Z">>

\* the row of a transaction: the nine fields in the fixed order, separated by commas
ExpectedRowText(t) ==
    IdText(t.id) \o <<",">>
      \o <<"\"">> \o t.customerName \o <<"\"">> \o <<",">>
      \o t.customerEmail \o <<",">>
      \o DecimalText(t.amount \div 100) \o <<".">>
      \o <<DigitText((t.amount % 100) \div 10), DigitText(t.amount % 10)>> \o <<",">>
      \o Text(t.currency) \o <<",">>
      \o Text(t.status) \o <<",">>
      \o Text(t.type) \o <<",">>
      \o (IF t.description \in {NULL, ""} THEN <<"\"", "\"">>
          ELSE <<"\"">> \o Text(t.description) \o <<"\"">>) \o <<",">>
      \o IsoText(t.createdAt)

\* the rows of the transactions in input order, each after a newline
RECURSIVE ExpectedRowsText(_)
ExpectedRowsText(txs) ==
    IF txs = <<>> THEN <<>>
    ELSE <<"\n">> \o ExpectedRowText(Head(txs)) \o ExpectedRowsText(Tail(txs))

\* C17: generateCSV emits the header row and then one row per transaction in input order:
\* id, quoted customerName, customerEmail, amount with exactly two decimals, currency,
\* status, type, quoted description, ISO-8601 createdAt, comma-joined; an absent
\* description is the empty quoted string, and the transaction of the scenario yields
\* t1,"Acme Co",a@acme.com,1234.50,USD,COMPLETED,PAYMENT,"",2024-01-15T00:00:00.000Z
C17_HeaderThenOneRowPerTransaction ==
    IsCsvCall =>
        LET txs == result.transactions
        IN /\ result.csv = HeaderRowText \o ExpectedRowsText(txs)
           /\ \A i \in 1..Len(txs) :
                txs[i] = ScenarioRow => ExpectedRowText(txs[i]) = ScenarioRowText

\* C17 witness: generateCSV has rendered the transaction of the scenario followed by a
\* transaction with a description
C17_Witness ==
    /\ call.op = "generateCSV"
    /\ Len(result.transactions) = 2
    /\ result.transactions[1] = ScenarioRow
    /\ result.transactions[2].description = "Payment"
    /\ SubSeq(result.csv, Len(HeaderRowText) + 2, Len(HeaderRowText) + 1 + Len(ScenarioRowText))
         = ScenarioRowText
    /\ result.csv[Len(HeaderRowText) + 2 + Len(ScenarioRowText)] = "\n"

\* the pieces of a text between the occurrences of the separator character
RECURSIVE SplitOn(_, _)
SplitOn(text, c) ==
    IF \A i \in 1..Len(text) : text[i] # c THEN <<text>>
    ELSE LET i == CHOOSE k \in 1..Len(text) :
                      text[k] = c /\ \A j \in 1..(k - 1) : text[j] # c
         IN <<SubSeq(text, 1, i - 1)>> \o SplitOn(SubSeq(text, i + 1, Len(text)), c)

\* a CSV text read back field by field: newline-separated rows of comma-separated fields
ParseCSV(text) ==
    LET lines == SplitOn(text, "\n")
    IN [l \in 1..Len(lines) |-> SplitOn(lines[l], ",")]

\* the fields of a parsed row reproduce ID, Amount, Currency, Status, Type and Date of t
RowReproduces(fields, t) ==
    /\ Len(fields) = Len(CsvHeaders)
    /\ fields[1] = IdText(t.id)
    /\ fields[4] = toFixed2(t.amount)
    /\ fields[5] = Text(t.currency)
    /\ fields[6] = Text(t.status)
    /\ fields[7] = Text(t.type)
    /\ fields[9] = IsoText(t.createdAt)

\* C18: for every list getReportData produces, the output of generateCSV parsed back field
\* by field reproduces, for every transaction and in input order, its ID, Amount,
\* Currency, Status, Type and Date, whatever the customer name and description contain
C18_CsvRoundTrip ==
    call.op = "exportReport" =>
        LET parsed == ParseCSV(result.csv)
            txs == result.transactions
        IN /\ Len(parsed) = Len(txs) + 1
           /\ \A i \in 1..Len(txs) : RowReproduces(parsed[i + 1], txs[i])

\* the round trip of the exports whose names and descriptions hold no comma
C18_RoundTripOfPlainTexts ==
    (/\ call.op = "exportReport"
     /\ \A c \in customers : \A k \in 1..Len(c.name) : c.name[k] # ","
     /\ \A t \in transactions : t.description # "Paid, thanks") =>
        C18_CsvRoundTrip

-----------------------------------------------------------------------------
(* The whole system over snapshots that hold rows of two tenants *)

\* catalogue of the tenants: both organizations, two statuses, one instant of day 1
TenantCatalogue ==
    [c \in 1..4 |->
        [organizationId |-> OrgSeq[((c - 1) % 2) + 1],
         status |-> <<"COMPLETED", "PENDING">>[((c - 1) \div 2) + 1],
         type |-> "PAYMENT",
         createdAt |-> FirstOfDay1]]

\* one DailyMetric row of today for each organization
TenantMetricRows ==
    { [organizationId |-> "org1", date |-> TodayStart, revenue |-> 1000,
       activeUsers |-> 45, churnedCustomers |-> 1, totalCustomers |-> 20,
       conversionRate |-> 5],
      [organizationId |-> "org2", date |-> TodayStart, revenue |-> 500,
       activeUsers |-> 30, churnedCustomers |-> 3, totalCustomers |-> 30,
       conversionRate |-> 2] }

\* the seed script may or may not have created the demo organization
Init ==
    /\ organizations \in {OrganizationRows, {o \in OrganizationRows : o.slug # "acme-corp"}}
    /\ customers = CustomerRows
    /\ transactions \in TransactionSnapshots(TenantCatalogue, MaxTx - 1)
    /\ dailyMetrics \in SUBSET TenantMetricRows
    /\ now = TodayStart + 1
    /\ call = NoCall
    /\ result = NoCall
    /\ pages = <<>>
    /\ WebIdle

\* a request without a session, of a user of an organization, of a user without one
Sessions ==
    {[signedIn |-> FALSE, organizationId |-> NULL]}
      \cup {[signedIn |-> TRUE, organizationId |-> o] : o \in Orgs \cup {NULL}}

DashboardParams ==
    [page : {NULL, "0", "1", "2"}, status : {NULL, "all", "PENDING"},
     search : {NullText, <<"A">>}]

ReportParams ==
    [startDate : {NULL, "1970-01-02", "not-a-date"}, endDate : {NULL, ""},
     status : {NULL, "all", "PENDING"}, type : {NULL, "BOGUS"}]

\* a request for /dashboard
RequestDashboardPage ==
    /\ call = NoCall
    /\ \E session \in Sessions, params \in DashboardParams :
         \E r \in DashboardPage(DB, session, params) :
           /\ call' = [op |-> "DashboardPage", session |-> session, params |-> params]
           /\ result' = r
           /\ UNCHANGED <<store, now, pages, web>>

\* a request for /reports
RequestReportsPage ==
    /\ call = NoCall
    /\ \E session \in Sessions, params \in ReportParams :
         \E r \in ReportsPage(DB, session, params) :
           /\ call' = [op |-> "ReportsPage", session |-> session, params |-> params]
           /\ result' = r
           /\ UNCHANGED <<store, now, pages, web>>

\* a request for GET /api/reports/export
RequestExport ==
    /\ call = NoCall
    /\ \E session \in Sessions, params \in ReportParams :
         \E r \in ExportGET(DB, session, params) :
           /\ call' = [op |-> "ExportGET", session |-> session, params |-> params]
           /\ result' = r
           /\ UNCHANGED <<store, now, pages, web>>

Next ==
    \/ GetKPIData
    \/ GetChartData
    \/ GetTransactions
    \/ GetNextPage
    \/ GetReportData
    \/ RequestDashboardPage
    \/ RequestReportsPage
    \/ RequestExport
    \/ Return

Spec == Init /\ [][Next]_vars

-----------------------------------------------------------------------------
(* Tenant isolation *)

\* the Data Store with the rows of one organization only
OrgView(db, org) ==
    [organizations |-> {o \in db.organizations : o.id = org},
     customers |-> {c \in db.customers : c.organizationId = org},
     transactions |-> {t \in db.transactions : t.organizationId = org},
     dailyMetrics |-> {m \in db.dailyMetrics : m.organizationId = org}]

OrgOfTransaction(id) == (CHOOSE t \in transactions : t.id = id).organizationId

\* C1: what a service called with organizationId X returns is what it returns from a
\* store that holds the rows of X alone, and every transaction returned is one of X
C1_TenantIsolation ==
    /\ call.op = "getKPIData" =>
          result = getKPIData(OrgView(DB, call.organizationId), call.organizationId)
    /\ call.op = "getChartData" =>
          result.series
            = getChartData(OrgView(DB, call.organizationId), call.organizationId, call.days)
    /\ call.op = "getTransactions" =>
          /\ result \in getTransactions(OrgView(DB, call.filters.organizationId), call.filters)
          /\ ~IsThrown(result) =>
                \A i \in 1..Len(result.transactions) :
                    OrgOfTransaction(result.transactions[i].id) = call.filters.organizationId
    /\ call.op = "getReportData" =>
          /\ result \in getReportData(OrgView(DB, call.filters.organizationId), call.filters)
          /\ ~IsThrown(result) =>
                \A i \in 1..Len(result.transactions) :
                    OrgOfTransaction(result.transactions[i].id) = call.filters.organizationId

\* C1 witness: a listing of one organization's transactions from a store that also holds
\* a matching transaction and a metric row of the other organization
C1_Witness ==
    /\ call.op = "getTransactions"
    /\ ~IsThrown(result)
    /\ result.totalCount >= 1
    /\ \E t \in transactions :
          /\ t.organizationId # call.filters.organizationId
          /\ ListingMatches([call.filters EXCEPT !.organizationId = t.organizationId], t)
    /\ \E m \in dailyMetrics : m.organizationId # call.filters.organizationId

\* the ids of the transactions a response shows
ResponseTransactionIds(r) ==
    IF "transactionsData" \in DOMAIN r
    THEN {r.transactionsData.transactions[i].id :
              i \in 1..Len(r.transactionsData.transactions)}
    ELSE IF "reportData" \in DOMAIN r
    THEN {r.reportData.transactions[i].id : i \in 1..Len(r.reportData.transactions)}
    ELSE IF "csv" \in DOMAIN r
    THEN {t.id : t \in {t \in transactions :
                       \E i \in 2..Len(ParseCSV(r.csv)) : ParseCSV(r.csv)[i][1] = IdText(t.id)}}
    ELSE {}

IsSignedInRequest ==
    /\ call.op \in {"DashboardPage", "ReportsPage", "ExportGET"}
    /\ call.session.signedIn

\* C2: a signed-in user's dashboard page, reports page and CSV export show only data of
\* the organization the user belongs to, also when the user belongs to none
C2_OnlyOwnOrganizationData ==
    IsSignedInRequest =>
        /\ \A id \in ResponseTransactionIds(result) :
              OrgOfTransaction(id) = call.session.organizationId
        /\ "chartData" \in DOMAIN result =>
              \A i \in 1..Len(result.chartData) :
                  \E m \in dailyMetrics :
                      /\ m.organizationId = call.session.organizationId
                      /\ toISOString(m.date)[1] = result.chartData[i].date

-----------------------------------------------------------------------------
(* The services only read *)

\* C19: whatever calls of getKPIData, getChartData, getTransactions, getReportData,
\* getDemoOrganization and generateCSV are made, directly or by the pages and the export
\* endpoint, no Organization, DailyMetric, Transaction or Customer row is changed, created
\* or deleted
C19_ServicesOnlyRead ==
    [][/\ organizations' = organizations
       /\ customers' = customers
       /\ transactions' = transactions
       /\ dailyMetrics' = dailyMetrics]_vars

\* C19 witness: getKPIData has answered for an organization that has no row of today,
\* from a store that holds rows of all four tables
C19_Witness ==
    /\ call.op = "getKPIData"
    /\ organizations # {} /\ customers # {} /\ transactions # {} /\ dailyMetrics # {}
    /\ ~ \E m \in dailyMetrics :
           m.organizationId = call.organizationId /\ m.date = startOfDay(now)

-----------------------------------------------------------------------------
(* The services on a Data Store whose queries may fail: a run issues the queries of the  *)
(* function one after the other (each is awaited); failAt is the number of the query     *)
(* that the store fails (0: none) and error is what it fails with                        *)

\* errors of the store: the server cannot be reached, no connection within the timeout
StoreErrors == {"P1001", "P2024"}

\* mutant: a failed query is issued a second time, which succeeds
awaitAll_Retrying(queries, values, failAt, error) ==
    IF failAt \in 1..Len(queries)
    THEN {[issued |-> SubSeq(queries, 1, failAt) \o SubSeq(queries, failAt, Len(queries)),
           outcome |-> v] : v \in values}
    ELSE {[issued |-> queries, outcome |-> v] : v \in values}

\* the run of a function whose queries are `queries` and whose value is one of `values`:
\* an awaited query that rejects ends the function with that rejection
awaitAll(queries, values, failAt, error) ==
    IF failAt \in 1..Len(queries)
    THEN {[issued |-> SubSeq(queries, 1, failAt), outcome |-> Thrown(error)]}
    ELSE {[issued |-> queries, outcome |-> v] : v \in values}

getKPIDataRun(db, organizationId, failAt, error) ==
    awaitAll(<<"dailyMetric.aggregate current", "dailyMetric.aggregate previous">>,
             {getKPIData(db, organizationId)}, failAt, error)

getChartDataRun(db, organizationId, days, failAt, error) ==
    awaitAll(<<"dailyMetric.findMany">>,
             {getChartData(db, organizationId, days)}, failAt, error)

getTransactionsRun(db, filters, failAt, error) ==
    awaitAll(<<"transaction.count", "transaction.findMany">>,
             getTransactions(db, filters), failAt, error)

getReportDataRun(db, filters, failAt, error) ==
    awaitAll(<<"transaction.findMany">>, getReportData(db, filters), failAt, error)

\* GET /api/reports/export of a user with or without an organization: the queries are
\* the one of getDemoOrganization (user without organization) and the one of
\* getReportData; whatever is thrown inside the handler is answered with 500
ExportGETRun(db, session, searchParams, failAt, error) ==
    IF ~session.signedIn
    THEN {[issued |-> <<>>, response |-> [status |-> 401, error |-> "Unauthorized"]]}
    ELSE IF ~IsTruthy(session.organizationId) /\ failAt = 1
    THEN {[issued |-> <<"organization.findFirst">>,
           response |-> [status |-> 500, error |-> "Failed to generate export"]]}
    ELSE IF organizationIdFor(db, session) = NULL
    THEN {[issued |-> <<"organization.findFirst">>,
           response |-> [status |-> 404, error |-> "No organization found"]]}
    ELSE LET demo == IF IsTruthy(session.organizationId) THEN <<>>
                     ELSE <<"organization.findFirst">>
             params == [startDate |-> OrString(searchParams.startDate, NULL),
                        endDate |-> OrString(searchParams.endDate, NULL),
                        status |-> OrString(searchParams.status, NULL),
                        type |-> OrString(searchParams.type, NULL)]
         IN IF ~exportSchemaSuccess(params)
            THEN {[issued |-> demo,
                   response |-> [status |-> 400, error |-> "Invalid parameters"]]}
            ELSE { [issued |-> demo \o run.issued,
                    response |->
                        IF IsThrown(run.outcome)
                        THEN [status |-> 500, error |-> "Failed to generate export"]
                        ELSE [status |-> 200,
                              csv |-> generateCSV(run.outcome.transactions)]] :
                   run \in getReportDataRun(
                               db, [organizationId |-> organizationIdFor(db, session),
                                    startDate |-> params.startDate,
                                    endDate |-> params.endDate,
                                    status |-> params.status,
                                    type |-> params.type],
                               IF failAt = 0 THEN 0 ELSE failAt - Len(demo), error) }

\* filters the store accepts
RunListingFilters ==
    [organizationId : Orgs, page : 1..2, pageSize : {1}, status : {NULL, "PENDING"},
     search : {NullText}]

RunReportFilters ==
    [organizationId : Orgs, startDate : {NULL}, endDate : {NULL},
     status : {NULL, "PENDING"}, type : {NULL}]

RunExportParams ==
    [startDate : {NULL}, endDate : {NULL}, status : {NULL, "PENDING"}, type : {NULL}]

RunGetKPIData ==
    /\ call = NoCall
    /\ \E organizationId \in Orgs, failAt \in 0..2, error \in StoreErrors :
         \E r \in getKPIDataRun(DB, organizationId, failAt, error) :
           /\ call' = [op |-> "getKPIDataRun", failAt |-> failAt, error |-> error]
           /\ result' = r
           /\ UNCHANGED <<store, now, pages, web>>

RunGetChartData ==
    /\ call = NoCall
    /\ \E organizationId \in Orgs, failAt \in 0..1, error \in StoreErrors :
         \E r \in getChartDataRun(DB, organizationId, 30, failAt, error) :
           /\ call' = [op |-> "getChartDataRun", failAt |-> failAt, error |-> error]
           /\ result' = r
           /\ UNCHANGED <<store, now, pages, web>>

RunGetTransactions ==
    /\ call = NoCall
    /\ \E filters \in RunListingFilters, failAt \in 0..2, error \in StoreErrors :
         \E r \in getTransactionsRun(DB, filters, failAt, error) :
           /\ call' = [op |-> "getTransactionsRun", failAt |-> failAt, error |-> error]
           /\ result' = r
           /\ UNCHANGED <<store, now, pages, web>>

RunGetReportData ==
    /\ call = NoCall
    /\ \E filters \in RunReportFilters, failAt \in 0..1, error \in StoreErrors :
         \E r \in getReportDataRun(DB, filters, failAt, error) :
           /\ call' = [op |-> "getReportDataRun", failAt |-> failAt, error |-> error]
           /\ result' = r
           /\ UNCHANGED <<store, now, pages, web>>

RunExport ==
    /\ call = NoCall
    /\ \E session \in Sessions, params \in RunExportParams, failAt \in 0..2,
          error \in StoreErrors :
         \E r \in ExportGETRun(DB, session, params, failAt, error) :
           /\ call' = [op |-> "ExportGETRun", session |-> session, failAt |-> failAt,
                       error |-> error]
           /\ result' = r
           /\ UNCHANGED <<store, now, pages, web>>

NextRuns ==
    \/ RunGetKPIData
    \/ RunGetChartData
    \/ RunGetTransactions
    \/ RunGetReportData
    \/ RunExport
    \/ Return

SpecRuns == Init /\ [][NextRuns]_vars

\* the number of queries a service issues when none fails
QueriesOf(op) ==
    CASE op = "getKPIDataRun" -> 2
      [] op = "getChartDataRun" -> 1
      [] op = "getTransactionsRun" -> 2
      [] op = "getReportDataRun" -> 1

NoQueryTwice(issued) ==
    \A i, j \in 1..Len(issued) : i # j => issued[i] # issued[j]

\* C20: when a query issued by getKPIData, getChartData, getTransactions or getReportData
\* fails, the call fails with that error: it returns no partial or default result, issues
\* no further query and does not issue the failed one again; in the export endpoint such
\* a failure is answered with a 500 JSON error, never with a CSV body
C20_StoreFailurePropagates ==
    /\ (/\ call.op \in {"getKPIDataRun", "getChartDataRun", "getTransactionsRun",
                        "getReportDataRun"}
        /\ call.failAt \in 1..QueriesOf(call.op)) =>
           /\ result.outcome = [error |-> call.error]
           /\ Len(result.issued) = call.failAt
           /\ NoQueryTwice(result.issued)
    /\ (/\ call.op = "ExportGETRun"
        /\ call.failAt >= 1
        /\ Len(result.issued) >= call.failAt) =>
           /\ result.response = [status |-> 500, error |-> "Failed to generate export"]
           /\ Len(result.issued) = call.failAt
           /\ NoQueryTwice(result.issued)

\* C20 witness: the second query of getKPIData has failed
C20_Witness ==
    /\ call.op = "getKPIDataRun"
    /\ call.failAt = 2
    /\ dailyMetrics # {}
    /\ result.issued = <<"dailyMetric.aggregate current", "dailyMetric.aggregate previous">>
    /\ result.outcome = [error |-> call.error]

\* C20 witness of the endpoint: the query of getReportData has failed in an export for a
\* user without organization, after the demo organization was found
C20_WitnessExport ==
    /\ call.op = "ExportGETRun"
    /\ call.session.signedIn /\ call.session.organizationId = NULL
    /\ call.failAt = 2
    /\ transactions # {}
    /\ result.issued = <<"organization.findFirst", "transaction.findMany">>
    /\ result.response.status = 500

-----------------------------------------------------------------------------
(* POST /api/auth/signup: the in-memory rate limiter and the creation of an account.    *)
(* A request is handled in steps, one for each stretch between two accesses to the      *)
(* User table: arrival (limiter, body, validation), findUnique, create                  *)

RATE_LIMIT_WINDOW == 60 * 1000     \* milliseconds
MAX_REQUESTS == 5

\* the clock advances by half the window
ClockStep == RATE_LIMIT_WINDOW \div 2

MaxClockSteps == 3          \* the clock stops after this many steps
MaxLimiterRequests == 7     \* at most this many requests handled one after the other

\* map.set(key, value)
MapSet(map, key, value) ==
    [k \in (DOMAIN map) \cup {key} |-> IF k = key THEN value ELSE map[k]]

\* mutant: the sixth request of a window passes too
checkRateLimit_OffByOne(map, ip, t) ==
    IF ip \notin DOMAIN map \/ t - map[ip].lastReset > RATE_LIMIT_WINDOW
    THEN [allowed |-> TRUE, map |-> MapSet(map, ip, [count |-> 1, lastReset |-> t])]
    ELSE IF map[ip].count > MAX_REQUESTS
    THEN [allowed |-> FALSE, map |-> map]
    ELSE [allowed |-> TRUE,
          map |-> MapSet(map, ip, [map[ip] EXCEPT !.count = map[ip].count + 1])]

\* checkRateLimit(ip) at the time t: whether the request passes, and the map afterwards
checkRateLimit(map, ip, t) ==
    IF ip \notin DOMAIN map \/ t - map[ip].lastReset > RATE_LIMIT_WINDOW
    THEN [allowed |-> TRUE, map |-> MapSet(map, ip, [count |-> 1, lastReset |-> t])]
    ELSE IF map[ip].count >= MAX_REQUESTS
    THEN [allowed |-> FALSE, map |-> map]
    ELSE [allowed |-> TRUE,
          map |-> MapSet(map, ip, [map[ip] EXCEPT !.count = map[ip].count + 1])]

\* a text of n characters
TextOfLength(n) == [i \in 1..n |-> "x"]

\* z.string().email() on the addresses of the model
IsEmail(e) == e \in {"a@x.io", "b@x.io"}

\* signUpSchema: name of 2..100 characters, an e-mail address, password of 6..100
\* characters, confirmPassword equal to password
signUpSchemaSuccess(body) ==
    /\ Len(body.name) >= 2 /\ Len(body.name) <= 100
    /\ IsEmail(body.email)
    /\ Len(body.password) >= 6 /\ Len(body.password) <= 100
    /\ body.password = body.confirmPassword

\* bcryptjs hash and compare (the salt is left out)
hash(password) == <<"bcrypt">> \o password
compare(password, passwordHash) == passwordHash = <<"bcrypt">> \o password

\* the ids of the requests that are being handled
InFlight == {id \in 1..Len(requests) : requests[id].pc # "done"}

\* a request is answered
Answer(id, status, error) ==
    [requests EXCEPT ![id] = [@ EXCEPT !.pc = "done", !.status = status, !.error = error]]

\* POST: x-forwarded-for is ip; checkRateLimit, request.json(), signUpSchema.safeParse
SignupPOST(ip, body) ==
    LET limit == checkRateLimit(rateLimitMap, ip, dateNow)
        request == [kind |-> "signup", ip |-> ip, at |-> dateNow, body |-> body,
                    pc |-> "findUnique", status |-> 0, error |-> ""]
    IN /\ rateLimitMap' = limit.map
       /\ requests' =
            Append(requests,
                   IF ~limit.allowed
                   THEN [request EXCEPT !.pc = "done", !.status = 429,
                            !.error = "Too many requests. Please try again later."]
                   ELSE IF ~signUpSchemaSuccess(body)
                   THEN [request EXCEPT !.pc = "done", !.status = 400,
                            !.error = "Invalid input"]
                   ELSE request)
       /\ UNCHANGED <<users, dateNow, dbModule, form>>

\* prisma.user.findUnique({ where: { email } }) and the answer when the user exists
SignupFindUnique(id) ==
    /\ requests[id].kind = "signup" /\ requests[id].pc = "findUnique"
    /\ requests' =
         IF \E u \in users : u.email = requests[id].body.email
         THEN Answer(id, 400, "An account with this email already exists")
         ELSE [requests EXCEPT ![id].pc = "create"]
    /\ UNCHANGED <<users, rateLimitMap, dateNow, dbModule, form>>

\* hash(password, 12) and prisma.user.create: email is unique in the User table, so the
\* create of a second user with the email is rejected and the handler answers 500
SignupCreate(id) ==
    /\ requests[id].kind = "signup" /\ requests[id].pc = "create"
    /\ IF \E u \in users : u.email = requests[id].body.email
       THEN /\ requests' = Answer(id, 500, "Something went wrong. Please try again.")
            /\ UNCHANGED users
       ELSE /\ requests' = Answer(id, 201, "")
            /\ users' = users \cup {[id |-> id, email |-> requests[id].body.email,
                                     passwordHash |-> hash(requests[id].body.password)]}
    /\ UNCHANGED <<rateLimitMap, dateNow, dbModule, form>>

\* time passes
ClockTick ==
    /\ dateNow < MaxClockSteps * ClockStep
    /\ dateNow' = dateNow + ClockStep
    /\ UNCHANGED <<store, now, call, result, pages, users, rateLimitMap, requests,
                   dbModule, form>>

Ips == {"10.0.0.1", "unknown"}

\* a valid body with the e-mail address
SignupBody(email) ==
    [name |-> TextOfLength(2), email |-> email, password |-> TextOfLength(6),
     confirmPassword |-> TextOfLength(6)]

InitWeb ==
    /\ organizations = OrganizationRows
    /\ customers = CustomerRows
    /\ transactions = {}
    /\ dailyMetrics = {}
    /\ now = TodayStart
    /\ call = NoCall
    /\ result = NoCall
    /\ pages = <<>>
    /\ WebIdle

\* a signup request arrives while no other is being handled
SignupOneByOne ==
    /\ InFlight = {}
    /\ Len(requests) < MaxLimiterRequests
    /\ \E ip \in Ips : SignupPOST(ip, SignupBody("a@x.io"))
    /\ UNCHANGED <<store, now, call, result, pages>>

\* a request that is being handled takes its next step
SignupContinue ==
    /\ \E id \in InFlight : SignupFindUnique(id) \/ SignupCreate(id)
    /\ UNCHANGED <<store, now, call, result, pages>>

NextLimiter == SignupOneByOne \/ SignupContinue \/ ClockTick

SpecLimiter == InitWeb /\ [][NextLimiter]_vars

\* the requests of the ip that the limiter let through
Passed(ip) ==
    {id \in 1..Len(requests) : requests[id].ip = ip /\ requests[id].status # 429}

\* the requests of the ip that arrived in its current limiter window
InCurrentWindow(ip) ==
    {id \in 1..Len(requests) :
        requests[id].ip = ip /\ requests[id].at >= rateLimitMap[ip].lastReset}

\* the request created no account
CreatedNoAccount(id) == \A u \in users : u.id # id

\* C21 as stated: for every client IP, at most 5 signup requests pass in any 1-minute
\* interval
C21_AtMostFiveInAnyMinute ==
    \A ip \in Ips : \A first \in Passed(ip) :
        Cardinality({id \in Passed(ip) :
                        /\ requests[id].at >= requests[first].at
                        /\ requests[id].at < requests[first].at + RATE_LIMIT_WINDOW})
            <= MAX_REQUESTS

\* C21 amended: for every client IP, at most 5 signup requests pass in each window of
\* the limiter; every further request of the window is answered 429, creates no account
\* and is not counted
C21_AtMostFivePerWindow ==
    \A ip \in DOMAIN rateLimitMap :
        LET window == InCurrentWindow(ip)
            passed == window \cap Passed(ip)
        IN /\ Cardinality(passed) <= MAX_REQUESTS
           /\ rateLimitMap[ip].count = Cardinality(passed)
           /\ \A id \in window :
                /\ requests[id].status = 429
                      <=> Cardinality({p \in passed : p < id}) = MAX_REQUESTS
                /\ requests[id].status = 429 => CreatedNoAccount(id)

\* a request is answered 429 in a window that is not the first of its IP
C21_Witness ==
    \E ip \in DOMAIN rateLimitMap :
        /\ \E id \in InCurrentWindow(ip) : requests[id].status = 429
        /\ \E id \in Passed(ip) : requests[id].at < rateLimitMap[ip].lastReset

-----------------------------------------------------------------------------
(* PATCH /api/settings/password, handled in steps: arrival (session, body, validation), *)
(* findUnique with compare, update                                                      *)

\* a text of n characters c
Repeat(c, n) == [i \in 1..n |-> c]

\* mutant: the schema without its refinement
passwordSchemaSuccess_NoRefine(body) ==
    /\ Len(body.currentPassword) >= 1
    /\ Len(body.newPassword) >= 6 /\ Len(body.newPassword) <= 100
    /\ Len(body.confirmPassword) >= 1

\* passwordSchema: currentPassword of at least 1 character, newPassword of 6..100
\* characters, confirmPassword of at least 1 character and equal to newPassword
passwordSchemaSuccess(body) ==
    /\ Len(body.currentPassword) >= 1
    /\ Len(body.newPassword) >= 6 /\ Len(body.newPassword) <= 100
    /\ Len(body.confirmPassword) >= 1
    /\ body.newPassword = body.confirmPassword

\* parsed.error.issues[0].message: the issues come in the order of the fields, the one of
\* the refinement last
passwordSchemaFirstIssue(body) ==
    IF Len(body.currentPassword) < 1 THEN "Current password is required"
    ELSE IF Len(body.newPassword) < 6 THEN "Password must be at least 6 characters"
    ELSE IF Len(body.newPassword) > 100 THEN "Password must be less than 100 characters"
    ELSE IF Len(body.confirmPassword) < 1 THEN "Please confirm your password"
    ELSE "Passwords do not match"

\* the password hash of the user with the id, null when there is no such user or the
\* user has none (user?.passwordHash)
PasswordHashOf(id) ==
    IF \E u \in users : u.id = id
    THEN (CHOOSE u \in users : u.id = id).passwordHash
    ELSE NullText

\* PATCH: auth(), request.json(), passwordSchema.safeParse
PasswordPATCH(userId, ip, body) ==
    LET request == [kind |-> "password", ip |-> ip, at |-> dateNow, body |-> body,
                    userId |-> userId, pc |-> "findUnique", status |-> 0, error |-> "",
                    compared |-> NullText]
    IN /\ requests' =
            Append(requests,
                   IF userId = NULL
                   THEN [request EXCEPT !.pc = "done", !.status = 401,
                            !.error = "Unauthorized"]
                   ELSE IF ~passwordSchemaSuccess(body)
                   THEN [request EXCEPT !.pc = "done", !.status = 400,
                            !.error = passwordSchemaFirstIssue(body)]
                   ELSE request)
       /\ UNCHANGED <<users, rateLimitMap, dateNow, dbModule, form>>

\* prisma.user.findUnique({ where: { id } }), the check that there is a hash, and
\* compare(currentPassword, user.passwordHash)
PasswordFindUnique(id) ==
    /\ requests[id].kind = "password" /\ requests[id].pc = "findUnique"
    /\ LET passwordHash == PasswordHashOf(requests[id].userId)
       IN requests' =
            IF passwordHash = NullText
            THEN Answer(id, 400, "Password authentication not enabled")
            ELSE IF ~compare(requests[id].body.currentPassword, passwordHash)
            THEN [Answer(id, 400, "Current password is incorrect")
                    EXCEPT ![id].compared = passwordHash]
            ELSE [requests EXCEPT ![id].pc = "update", ![id].compared = passwordHash]
    /\ UNCHANGED <<users, rateLimitMap, dateNow, dbModule, form>>

\* hash(newPassword, 12) and prisma.user.update({ where: { id }, data: { passwordHash } })
PasswordUpdate(id) ==
    /\ requests[id].kind = "password" /\ requests[id].pc = "update"
    /\ users' = {IF u.id = requests[id].userId
                 THEN [u EXCEPT !.passwordHash = hash(requests[id].body.newPassword)]
                 ELSE u : u \in users}
    /\ requests' = Answer(id, 200, "")
    /\ UNCHANGED <<rateLimitMap, dateNow, dbModule, form>>

\* the passwords of the model
PasswordA == Repeat("a", 6)
PasswordB == Repeat("b", 6)
PasswordC == Repeat("c", 100)

\* u1 signs in with a password, u2 has no password hash
UserRows ==
    { [id |-> "u1", email |-> "a@x.io", passwordHash |-> hash(PasswordA)],
      [id |-> "u2", email |-> "b@x.io", passwordHash |-> NullText] }

InitPassword ==
    /\ organizations = OrganizationRows
    /\ customers = CustomerRows
    /\ transactions = {}
    /\ dailyMetrics = {}
    /\ now = TodayStart
    /\ call = NoCall
    /\ result = NoCall
    /\ pages = <<>>
    /\ users = UserRows
    /\ rateLimitMap = <<>>
    /\ requests = <<>>
    /\ dateNow = 0
    /\ dbModule = [nodeEnv |-> "development", globalForPrisma |-> 0, constructed |-> 0,
                   exported |-> <<>>]
    /\ form = FormIdle

MaxPasswordRequests == 6    \* at most this many requests handled one after the other

\* the bodies of the requests handled one after the other
PasswordChangeBodies ==
    {[currentPassword |-> PasswordA, newPassword |-> n, confirmPassword |-> n] :
        n \in {PasswordA, PasswordB}}

\* a password request arrives while no other is being handled
PasswordOneByOne ==
    /\ InFlight = {}
    /\ Len(requests) < MaxPasswordRequests
    /\ \E body \in PasswordChangeBodies : PasswordPATCH("u1", "10.0.0.1", body)
    /\ UNCHANGED <<store, now, call, result, pages>>

\* a request that is being handled takes its next step
PasswordContinue ==
    /\ \E id \in InFlight : PasswordFindUnique(id) \/ PasswordUpdate(id)
    /\ UNCHANGED <<store, now, call, result, pages>>

NextPasswordLimit == PasswordOneByOne \/ PasswordContinue \/ ClockTick

SpecPasswordLimit == InitPassword /\ [][NextPasswordLimit]_vars

\* the password requests of the user and IP that arrived in the minute before the
\* request
EarlierInMinute(id) ==
    {e \in 1..(id - 1) :
        /\ requests[e].kind = "password"
        /\ requests[e].ip = requests[id].ip
        /\ requests[e].userId = requests[id].userId
        /\ requests[e].at > requests[id].at - RATE_LIMIT_WINDOW}

\* C22: a password request that follows five requests of the same client within one
\* minute is rejected with 429, without a comparison with the stored hash and without
\* changing it
C22_SixthPasswordRequestRejected ==
    \A id \in 1..Len(requests) :
        (/\ requests[id].kind = "password"
         /\ requests[id].userId # NULL
         /\ Cardinality(EarlierInMinute(id)) >= MAX_REQUESTS)
            => /\ requests[id].pc = "done"
               /\ requests[id].status = 429
               /\ requests[id].compared = NullText

-----------------------------------------------------------------------------
(* The queries a request for a page issues *)

\* the query of getDemoOrganization, made for a user without organization
DemoQueries(session) ==
    IF IsTruthy(session.organizationId) THEN <<>> ELSE <<"organization.findFirst">>

\* mutant: the organization is looked up before the session is checked
DashboardPageRun_LookupFirst(db, session, params) ==
    IF ~session.signedIn
    THEN {[issued |-> <<"organization.findFirst">>,
           response |-> [kind |-> "redirect", to |-> "/auth/signin"]]}
    ELSE {[issued |-> DemoQueries(session), response |-> r] :
             r \in DashboardPage(db, session, params)}

\* DashboardPage with the queries it issues: none before the redirect, the one of
\* getDemoOrganization, then those of getKPIData, getChartData and getTransactions
DashboardPageRun(db, session, params) ==
    IF ~session.signedIn
    THEN {[issued |-> <<>>, response |-> [kind |-> "redirect", to |-> "/auth/signin"]]}
    ELSE IF organizationIdFor(db, session) = NULL
    THEN {[issued |-> DemoQueries(session), response |-> r] :
             r \in DashboardPage(db, session, params)}
    ELSE {[issued |-> DemoQueries(session)
                        \o <<"dailyMetric.aggregate current",
                             "dailyMetric.aggregate previous", "dailyMetric.findMany",
                             "transaction.count", "transaction.findMany">>,
           response |-> r] : r \in DashboardPage(db, session, params)}

\* ReportsPage with the queries it issues
ReportsPageRun(db, session, params) ==
    IF ~session.signedIn
    THEN {[issued |-> <<>>, response |-> [kind |-> "redirect", to |-> "/auth/signin"]]}
    ELSE IF organizationIdFor(db, session) = NULL
    THEN {[issued |-> DemoQueries(session), response |-> r] :
             r \in ReportsPage(db, session, params)}
    ELSE {[issued |-> DemoQueries(session) \o <<"transaction.findMany">>,
           response |-> r] : r \in ReportsPage(db, session, params)}

\* a request for /dashboard
RunDashboardPage ==
    /\ call = NoCall
    /\ \E session \in Sessions, params \in DashboardParams :
         \E r \in DashboardPageRun(DB, session, params) :
           /\ call' = [op |-> "DashboardPageRun", session |-> session, params |-> params]
           /\ result' = r
           /\ UNCHANGED <<store, now, pages, web>>

\* a request for /reports
RunReportsPage ==
    /\ call = NoCall
    /\ \E session \in Sessions, params \in ReportParams :
         \E r \in ReportsPageRun(DB, session, params) :
           /\ call' = [op |-> "ReportsPageRun", session |-> session, params |-> params]
           /\ result' = r
           /\ UNCHANGED <<store, now, pages, web>>

\* a request for GET /api/reports/export, the store answering every query
RunExportRequest ==
    /\ call = NoCall
    /\ \E session \in Sessions, params \in ReportParams :
         \E r \in ExportGETRun(DB, session, params, 0, "P1001") :
           /\ call' = [op |-> "ExportGETRun", session |-> session, params |-> params,
                       failAt |-> 0]
           /\ result' = r
           /\ UNCHANGED <<store, now, pages, web>>

NextSession == RunDashboardPage \/ RunReportsPage \/ RunExportRequest \/ Return

SpecSession == Init /\ [][NextSession]_vars

\* a request that carries no signed-in user has been answered
IsRequestWithoutSession ==
    /\ call.op \in {"DashboardPageRun", "ReportsPageRun", "ExportGETRun"}
    /\ ~call.session.signedIn

\* C23: a request without a signed-in user is redirected to /auth/signin by the dashboard
\* and the reports page and answered 401 by the export endpoint, and no query is issued
\* for it
C23_NoDataAccessWithoutSession ==
    IsRequestWithoutSession =>
        /\ result.issued = <<>>
        /\ call.op \in {"DashboardPageRun", "ReportsPageRun"} =>
              result.response = [kind |-> "redirect", to |-> "/auth/signin"]
        /\ call.op = "ExportGETRun" =>
              result.response = [status |-> 401, error |-> "Unauthorized"]

\* C23 witness: the dashboard has been requested without a session while the store holds
\* organizations, metrics and transactions
C23_Witness ==
    /\ call.op = "DashboardPageRun"
    /\ ~call.session.signedIn
    /\ organizations # {} /\ dailyMetrics # {} /\ transactions # {}

\* C23 witness of the export endpoint
C23_WitnessExport ==
    /\ call.op = "ExportGETRun"
    /\ ~call.session.signedIn
    /\ transactions # {}
    /\ result.response.status = 401

-----------------------------------------------------------------------------
(* Password requests that are handled at the same time *)

MaxPasswordsInFlight == 2   \* at most this many password requests

\* bodies around the limits of passwordSchema
PasswordBodies ==
    {[currentPassword |-> c, newPassword |-> n, confirmPassword |-> f] :
        c \in {EmptyText, PasswordA},
        n \in {Repeat("b", 5), PasswordB, PasswordC, Repeat("c", 101)},
        f \in {EmptyText, PasswordB, PasswordC, Repeat("c", 101)}}

\* a password request arrives, whatever else is being handled
PasswordArrives ==
    /\ Len(requests) < MaxPasswordsInFlight
    /\ \E userId \in {NULL, "u1", "u2"} : \E body \in PasswordBodies :
          PasswordPATCH(userId, "10.0.0.1", body)
    /\ UNCHANGED <<store, now, call, result, pages>>

NextPassword == PasswordArrives \/ PasswordContinue

SpecPassword == InitPassword /\ [][NextPassword]_vars

\* the claim's condition on an input
PasswordInputIsAcceptable(body) ==
    /\ body.currentPassword # EmptyText
    /\ Len(body.newPassword) \in 6..100
    /\ body.confirmPassword = body.newPassword

\* the password requests of signed-in users
PasswordRequests ==
    {id \in 1..Len(requests) : requests[id].kind = "password" /\ requests[id].userId # NULL}

\* the request was rejected by the validation
RejectedAsInvalid(id) ==
    /\ requests[id].pc = "done"
    /\ requests[id].status = 400
    /\ requests[id].error \notin {"Password authentication not enabled",
                                  "Current password is incorrect"}

\* C24: passwordSchema accepts an input exactly when currentPassword is not empty,
\* newPassword has 6 to 100 characters and confirmPassword equals newPassword; an input it
\* rejects is answered 400 without a read of the stored hash, and no stored hash comes
\* from such an input
C24_PasswordSchemaAccepts ==
    /\ \A id \in PasswordRequests :
          /\ passwordSchemaSuccess(requests[id].body)
                <=> PasswordInputIsAcceptable(requests[id].body)
          /\ RejectedAsInvalid(id) <=> ~PasswordInputIsAcceptable(requests[id].body)
          /\ ~PasswordInputIsAcceptable(requests[id].body) =>
                requests[id].compared = NullText
    /\ \A u \in users :
          \/ u \in UserRows
          \/ \E id \in PasswordRequests :
                /\ PasswordInputIsAcceptable(requests[id].body)
                /\ requests[id].userId = u.id
                /\ u.passwordHash = hash(requests[id].body.newPassword)

\* C24 witness: a confirmation that differs from a new password of valid length has been
\* rejected, and so has a new password of 5 characters with its confirmation
C24_Witness ==
    /\ \E id \in PasswordRequests :
          /\ requests[id].body.currentPassword = PasswordA
          /\ requests[id].body.newPassword = PasswordB
          /\ requests[id].body.confirmPassword = PasswordC
          /\ requests[id].status = 400
          /\ requests[id].error = "Passwords do not match"
    /\ \E id \in PasswordRequests :
          /\ Len(requests[id].body.newPassword) = 5
          /\ requests[id].status = 400

\* C24 witness of acceptance: a new password of 100 characters has been stored
C24_WitnessAccepted ==
    \E u \in users : u.id = "u1" /\ u.passwordHash = hash(PasswordC)

-----------------------------------------------------------------------------
(* lib/db.ts: the module may be evaluated several times in one process (hot reload);    *)
(* globalThis outlives the evaluations. A PrismaClient is named by the number of its     *)
(* construction, 0 stands for undefined                                                  *)

NodeEnvs == {"development", "test", "production"}

MaxEvaluations == 3     \* the module is evaluated at most this many times

\* mutant: the global is never assigned
evaluateDbModule_GlobalNeverSet(module) ==
    LET found == module.globalForPrisma
        prisma == IF found # 0 THEN found ELSE module.constructed + 1
    IN [module EXCEPT !.constructed = IF found # 0 THEN @ ELSE @ + 1,
                      !.exported = Append(@, prisma)]

\* one evaluation of the module: prisma = globalForPrisma.prisma ?? new PrismaClient(),
\* globalForPrisma.prisma = prisma unless NODE_ENV is "production", export prisma
evaluateDbModule(module) ==
    LET found == module.globalForPrisma
        prisma == IF found # 0 THEN found ELSE module.constructed + 1
    IN [module EXCEPT !.constructed = IF found # 0 THEN @ ELSE @ + 1,
                      !.exported = Append(@, prisma),
                      !.globalForPrisma =
                          IF module.nodeEnv # "production" THEN prisma ELSE @]

InitDb ==
    /\ organizations = OrganizationRows
    /\ customers = CustomerRows
    /\ transactions = {}
    /\ dailyMetrics \in SUBSET TenantMetricRows
    /\ now = TodayStart + 1
    /\ call = NoCall
    /\ result = NoCall
    /\ pages = <<>>
    /\ users = {}
    /\ rateLimitMap = <<>>
    /\ requests = <<>>
    /\ dateNow = 0
    /\ dbModule \in {[nodeEnv |-> env, globalForPrisma |-> 0, constructed |-> 0,
                      exported |-> <<>>] : env \in NodeEnvs}
    /\ form = FormIdle

\* the module is evaluated (first import, or again after a hot reload)
EvaluateDbModule ==
    /\ Len(dbModule.exported) < MaxEvaluations
    /\ dbModule' = evaluateDbModule(dbModule)
    /\ UNCHANGED <<store, now, call, result, pages, users, rateLimitMap, requests,
                   dateNow, form>>

\* getKPIData in a module that imported prisma at one of the evaluations
QueryThroughPrisma ==
    /\ call = NoCall
    /\ \E organizationId \in Orgs, evaluation \in 1..Len(dbModule.exported) :
         /\ call' = [op |-> "getKPIData", organizationId |-> organizationId,
                     client |-> dbModule.exported[evaluation]]
         /\ result' = getKPIData(DB, organizationId)
         /\ UNCHANGED <<store, now, pages, web>>

NextDb == EvaluateDbModule \/ QueryThroughPrisma \/ Return

SpecDb == InitDb /\ [][NextDb]_vars

\* at most one PrismaClient was constructed and every evaluation exported the same one
OnePrismaClient ==
    /\ dbModule.constructed <= 1
    /\ \A i \in 1..Len(dbModule.exported) : dbModule.exported[i] = dbModule.exported[1]

\* C25 as stated: in every NODE_ENV, however many times the db module is evaluated, at
\* most one PrismaClient is constructed and every evaluation exports that instance
C25_SingletonInEveryNodeEnv == OnePrismaClient

\* C25 amended: when NODE_ENV is not "production", however many times the db module is
\* evaluated, at most one PrismaClient is constructed and every evaluation exports that
\* instance
C25_SingletonOutsideProduction ==
    dbModule.nodeEnv # "production" => OnePrismaClient

\* C25 witness: the module has been evaluated three times in development and a query
\* goes through the client of the first evaluation
C25_Witness ==
    /\ dbModule.nodeEnv = "development"
    /\ Len(dbModule.exported) = 3
    /\ dbModule.constructed = 1
    /\ call.op = "getKPIData"

-----------------------------------------------------------------------------
(* The search of getTransactions *)

\* two characters that differ at most in case
SameIgnoringCase(a, b) == toLowerChar(a) = toLowerChar(b)

\* the search text occurs in the text somewhere, case ignored
OccursIgnoringCase(text, search) ==
    /\ text # NullText
    /\ \E start \in 1..(Len(text) - Len(search) + 1) :
          \A k \in 1..Len(search) : SameIgnoringCase(text[start + k - 1], search[k])

\* the organization's transactions with the status asked for, if any, whose customer's
\* name or e-mail contains the search text
SearchMatching(f) ==
    {t \in transactions :
        /\ t.organizationId = f.organizationId
        /\ f.status \in Statuses => t.status = f.status
        /\ \E c \in customers :
              /\ c.id = t.customerId
              /\ OccursIgnoringCase(c.name, f.search) \/ OccursIgnoringCase(c.email, f.search)}

IsSearchCall ==
    /\ IsListingCall
    /\ call.filters.search # NullText
    /\ call.filters.search # EmptyText

\* the rows before the requested page, and the rows of and after it
RowsSkipped(f) == (f.page - 1) * f.pageSize

\* C26: a call of getTransactions with a search text returns only transactions of
\* the organization, with the status asked for, whose customer's name or e-mail contains
\* the text, case ignored; totalCount counts exactly those, and the page holds as many of
\* them as the page size and the rows before it allow
C26_SearchByNameOrEmail ==
    IsSearchCall =>
        LET f == call.filters
            matching == SearchMatching(f)
            rest == IF Cardinality(matching) > RowsSkipped(f)
                    THEN Cardinality(matching) - RowsSkipped(f) ELSE 0
        IN /\ \A i \in 1..Len(result.transactions) :
                 \E t \in matching : t.id = result.transactions[i].id
           /\ \A i, j \in 1..Len(result.transactions) :
                 result.transactions[i].id = result.transactions[j].id => i = j
           /\ result.totalCount = Cardinality(matching)
           /\ Len(result.transactions) = IF rest < f.pageSize THEN rest ELSE f.pageSize

\* C26 witness: the search "B" has returned a transaction of the customer without name
\* whose e-mail is b@x, while the organization has a transaction of the customer Ac, a@x
\* that was not returned
C26_Witness ==
    /\ IsSearchCall
    /\ call.filters.search = <<"B">>
    /\ call.filters.organizationId = "org1"
    /\ \E i \in 1..Len(result.transactions) :
          /\ result.transactions[i].customer.name = NullText
          /\ result.transactions[i].customer.email = <<"b", "@", "x">>
    /\ \E t \in transactions :
          /\ t.organizationId = "org1" /\ t.customerId = "c1"
          /\ call.filters.status \in Statuses => t.status = call.filters.status
    /\ result.totalCount < Cardinality({t \in transactions : t.organizationId = "org1"})

-----------------------------------------------------------------------------
(* Signup requests that are handled at the same time *)

MaxSignupsInFlight == 3     \* at most this many signup requests

\* valid bodies for two addresses, and one whose password is too short
SignupBodies ==
    {SignupBody("a@x.io"), SignupBody("b@x.io"),
     [SignupBody("a@x.io") EXCEPT !.password = TextOfLength(5),
                                  !.confirmPassword = TextOfLength(5)]}

\* a signup request arrives, whatever else is being handled
SignupArrives ==
    /\ Len(requests) < MaxSignupsInFlight
    /\ \E ip \in Ips, body \in SignupBodies : SignupPOST(ip, body)
    /\ UNCHANGED <<store, now, call, result, pages>>

NextSignup == SignupArrives \/ SignupContinue

SpecSignup == InitWeb /\ [][NextSignup]_vars

\* the signup requests with the e-mail address that passed the limiter and the validation
SignupsFor(email) ==
    {id \in 1..Len(requests) :
        /\ requests[id].kind = "signup"
        /\ requests[id].body.email = email
        /\ requests[id].status # 429
        /\ signUpSchemaSuccess(requests[id].body)}

\* C27: of the signup requests with the same valid e-mail address, once all are answered,
\* exactly one got 201 and every other got 400 "An account with this email already
\* exists"; there are never two users with one e-mail address
C27_OneSignupPerEmail ==
    /\ \A email \in {"a@x.io", "b@x.io"} :
          (SignupsFor(email) # {} /\ SignupsFor(email) \cap InFlight = {}) =>
              /\ Cardinality({id \in SignupsFor(email) : requests[id].status = 201}) = 1
              /\ \A id \in SignupsFor(email) :
                    requests[id].status # 201 =>
                        /\ requests[id].status = 400
                        /\ requests[id].error = "An account with this email already exists"
    /\ \A u, v \in users : u.email = v.email => u = v

\* what holds of the code: there are never two users with one e-mail address, and at most
\* one request for an address is answered 201
C27_NeverTwoAccounts ==
    /\ \A u, v \in users : u.email = v.email => u = v
    /\ \A email \in {"a@x.io", "b@x.io"} :
          Cardinality({id \in SignupsFor(email) : requests[id].status = 201}) <= 1

-----------------------------------------------------------------------------
(* Password changes of one user that are handled at the same time *)

\* C28: whenever a request replaces the stored password hash of a user, its
\* currentPassword matches the hash stored at that moment
C28_ReplacedOnlyByMatchingPassword ==
    [][\A id \in 1..Len(requests) :
          (requests[id].pc = "update" /\ requests'[id].pc = "done" /\ users' # users) =>
              compare(requests[id].body.currentPassword,
                      PasswordHashOf(requests[id].userId))]_vars

\* what holds of the code: the currentPassword of a request that replaces the hash matched
\* the hash that the request read
C28_ReplacedAfterMatchAtRead ==
    \A id \in 1..Len(requests) :
        (requests[id].kind = "password" /\ requests[id].pc = "update") =>
            compare(requests[id].body.currentPassword, requests[id].compared)

-----------------------------------------------------------------------------
(* settings-client.tsx: the profile form and the password form. handleProfileSubmit and *)
(* handlePasswordSubmit differ only in the endpoint and the form they work on            *)

MaxSubmits == 3     \* each form is submitted at most this many times

\* the submit button is disabled while the status is "loading"
ButtonDisabled(f) == f.status = "loading"

\* the handler up to its fetch: setStatus("loading")
submitStarts(f) ==
    [f EXCEPT !.status = "loading", !.inFlight = @ + 1, !.started = @ + 1]

\* the handler after its fetch: the response is not ok or the fetch throws ("error"), or
\* it is ok ("success", and a timer of 3 seconds is set)
submitResponds(f, ok) ==
    IF ok
    THEN [f EXCEPT !.status = "success", !.inFlight = @ - 1, !.timers = @ + 1]
    ELSE [f EXCEPT !.status = "error", !.inFlight = @ - 1]

\* the callback of setTimeout: setStatus("idle")
timerFires(f) == [f EXCEPT !.status = "idle", !.timers = @ - 1]

InitForm ==
    /\ organizations = OrganizationRows
    /\ customers = CustomerRows
    /\ transactions = {}
    /\ dailyMetrics = {}
    /\ now = TodayStart
    /\ call = NoCall
    /\ result = NoCall
    /\ pages = <<>>
    /\ WebIdle

\* the user submits a form whose button is enabled
Submit ==
    /\ \E name \in DOMAIN form :
          /\ ~ButtonDisabled(form[name])
          /\ form[name].started < MaxSubmits
          /\ form' = [form EXCEPT ![name] = submitStarts(form[name])]
    /\ UNCHANGED <<store, now, call, result, pages, users, rateLimitMap, requests,
                   dateNow, dbModule>>

\* the response of a request arrives
Respond ==
    /\ \E name \in DOMAIN form, ok \in BOOLEAN :
          /\ form[name].inFlight > 0
          /\ form' = [form EXCEPT ![name] = submitResponds(form[name], ok)]
    /\ UNCHANGED <<store, now, call, result, pages, users, rateLimitMap, requests,
                   dateNow, dbModule>>

\* a timer set by a successful submit runs out
TimerFires ==
    /\ \E name \in DOMAIN form :
          /\ form[name].timers > 0
          /\ form' = [form EXCEPT ![name] = timerFires(form[name])]
    /\ UNCHANGED <<store, now, call, result, pages, users, rateLimitMap, requests,
                   dateNow, dbModule>>

NextForm == Submit \/ Respond \/ TimerFires

SpecForm == InitForm /\ [][NextForm]_vars

\* C29: while a request of a form awaits its response the status of the form is "loading",
\* so the button is disabled and no second request is under way
C29_LoadingUntilResponse ==
    \A name \in DOMAIN form :
        /\ form[name].inFlight > 0 => form[name].status = "loading"
        /\ form[name].inFlight <= 1

-----------------------------------------------------------------------------
(* The parameters of the export endpoint *)

\* an export has been answered for a signed-in user who has an organization
IsExportOfMember ==
    /\ call.op = "ExportGETRun"
    /\ call.session.signedIn
    /\ call.session.organizationId \in Orgs

\* C30: whatever startDate, endDate, status and type a signed-in user with an
\* organization asks an export for, the request passes exportSchema, the query of
\* getReportData is issued, and the answer is 200 with a CSV body or 500, never 400
C30_InvalidParametersUnreachable ==
    IsExportOfMember =>
        /\ exportSchemaSuccess([k \in DOMAIN call.params |-> OrString(call.params[k], NULL)])
        /\ result.issued = <<"transaction.findMany">>
        /\ result.response.status \in {200, 500}
        /\ result.response.status = 200 => "csv" \in DOMAIN result.response
        /\ result.response.status = 500 =>
              result.response.error = "Failed to generate export"

\* C30 witness: a malformed date and an unknown type have been answered 500
C30_Witness ==
    /\ IsExportOfMember
    /\ call.params.startDate = "not-a-date"
    /\ call.params.type = "BOGUS"
    /\ result.response.status = 500

\* C30 witness of a CSV: an unknown date is absent, the status is "all"
C30_WitnessCsv ==
    /\ IsExportOfMember
    /\ call.params.status = "all"
    /\ transactions # {}
    /\ result.response.status = 200
    /\ Len(result.response.csv) > Len(HeaderRowText)

====
